---- MODULE Spec2Model ----
(***************************************************************************)
(* A model of the hammersbald storage engine:                              *)
(*   - AsyncFile (asyncfile.rs): a paged file appended by a background     *)
(*     worker from a queue, with the two mutexes and two condition         *)
(*     variables of AsyncFileInner;                                        *)
(*   - PageDB (pagedb.rs): batch and recover over data, table and log;     *)
(*   - the Hammersbald API (api.rs): put, get, put_referred, get_referred. *)
(* Each part has its own variables and its own specification; the actions  *)
(* of one part leave the variables of the other parts unchanged.           *)
(***************************************************************************)
EXTENDS Integers, Sequences, FiniteSets, TLC

\* ------------------------------------------------------------------------
\* Bounds of the model
\* ------------------------------------------------------------------------
\* pages a foreground thread hands to AsyncFile::append_page
MaxPages == 3
\* foreground flush calls
MaxFlush == 2
\* foreground read_page, len and sync calls
MaxReads == 2
\* waits on a condition variable that end without a notification
MaxSpurious == 1

\* ------------------------------------------------------------------------
\* AsyncFile state (asyncfile.rs, struct AsyncFileInner)
\* ------------------------------------------------------------------------
VARIABLES
    queue,        \* AsyncFileInner.queue: VecDeque<Page>, pages are numbered
    run,          \* AsyncFileInner.run: AtomicBool
    inner_file,   \* the pages of the inner PagedFile behind AsyncFileInner.file
    queue_lock,   \* owner of the Mutex around queue: "none", "fg" or "bg"
    file_lock,    \* owner of the Mutex around file:  "none", "fg" or "bg"
    bg_pc,        \* position of the worker thread in AsyncFile::background
    fg_pc,        \* position of the foreground thread inside its current call
    appended,     \* number of pages append_page has accepted so far
    flushes,      \* number of flush calls started so far
    reads,        \* number of read_page, len and sync calls started so far
    inner_flushed,\* length of the inner file when its flush was last called
    spurious,     \* waits that ended without a notification so far
    returned      \* the last foreground call that returned: "none", "append_page",
                  \* "flush", "read_page", "shutdown"

asyncVars == <<queue, run, inner_file, queue_lock, file_lock, bg_pc, fg_pc,
               appended, flushes, reads, inner_flushed, spurious, returned>>

\* ------------------------------------------------------------------------
\* PageDB state (pagedb.rs, struct PageDB, and the files behind it)
\* ------------------------------------------------------------------------
\* A file is a sequence of pages; page number n (byte offset n * PAGE_SIZE) is
\* element n + 1. Lengths are counted in pages.
VARIABLES
    data,         \* PageDB.data: the data file as the process sees it; a page
                  \* holds the id of the entry appended into it
    table,        \* PageDB.table: the table file as the process sees it; a page
                  \* holds the set of entry ids indexed in its bucket
    log,          \* PageDB.log: the log file as the process sees it; a header
                  \* page followed by pre-image pages
    data_disk,    \* contents the data file can have after a crash: the content
                  \* at the last sync and every content written since
    table_disk,   \* the same for the table file
    log_disk,     \* the same for the log file
    logged,       \* table pages whose pre-image the log file holds since reset()
    db_pc,        \* position of the owner thread in PageDB
    entry,        \* id of the entry being stored (0: none)
    next_id,      \* ids handed out so far
    rec_i,        \* recover: index of the next log page of `for page in log_pages`
    crashes,      \* crashes so far
    crash_pc,     \* where the last crash hit ("none": none since batch returned)
    committed,    \* <<data, table>> when batch last returned
    target        \* <<data, table>> when the current batch call started

dbVars == <<data, table, log, data_disk, table_disk, log_disk, logged, db_pc,
            entry, next_id, rec_i, crashes, crash_pc, committed, target>>

\* ------------------------------------------------------------------------
\* Hammersbald state (api.rs, struct Hammersbald, and the MemTable it owns)
\* ------------------------------------------------------------------------
\* A key and a data value are byte strings (sequences); a PRef is a byte
\* offset in the data file or in the link file.
VARIABLES
    debug_assertions,   \* the build: TRUE when cfg(debug_assertions) is on
    bucket_fill_target, \* F, the last argument of Hammersbald::new
    envelopes,          \* the records of the data file, in the order appended
    data_pos,           \* position of the data file's appender
    links,              \* the link records of the link file, in order appended
    link_pos,           \* position of the link file's appender
    buckets,            \* the table: bucket number b is element b + 1
    log_mod,            \* linear-hashing state
    step,               \* linear-hashing state
    nkeys,              \* keys inserted since init
    stored,             \* every put / put_referred that returned Ok, in order:
                        \* what was given and the PRef that was returned
    ret                 \* the last call and what it returned

apiVars == <<debug_assertions, bucket_fill_target, envelopes, data_pos,
             links, link_pos, buckets, log_mod, step, nkeys, stored, ret>>

\* ------------------------------------------------------------------------
\* AsyncFile (asyncfile.rs): a failing inner file and the poisoned mutexes
\* ------------------------------------------------------------------------
VARIABLES
    queue_poison, \* the poison flag of the Mutex around queue
    file_poison,  \* the poison flag of the Mutex around file
    failures,     \* number of foreground calls that ended in a panic so far
    failed        \* the last foreground call that ended in a panic, or "none"

poisonVars == <<queue_poison, file_poison, failures, failed>>

\* ------------------------------------------------------------------------
\* PagedFileAppender (pagedfile.rs) over a synchronous inner file
\* ------------------------------------------------------------------------
VARIABLES
    ap_file,      \* PagedFileAppender.file: the pages of the inner file
    ap_pos,       \* PagedFileAppender.pos
    ap_page,      \* PagedFileAppender.page: Option<Page>, <<>> or <<page>>
    ap_lep,       \* PagedFileAppender.lep
    ap_calls,     \* number of calls made on the appender so far
    ap_ret,       \* the last call on the appender, with what it returned
    ap_appends,   \* the append calls so far: slice, position before, value returned
    ap_dirty      \* the pages that received bytes since the last flush

appenderVars == <<ap_file, ap_pos, ap_page, ap_lep, ap_calls, ap_ret, ap_appends,
                  ap_dirty>>

\* ------------------------------------------------------------------------
\* SingleFile (singlefile.rs) over a std::fs::File
\* ------------------------------------------------------------------------
VARIABLES
    sf_append,    \* the File was opened with OpenOptions::append(true)
    sf_file,      \* the pages of the File behind SingleFile.file
    sf_cursor,    \* the position of that File: where its next read or write goes
    sf_len,       \* SingleFile.len
    sf_calls,     \* number of calls made on the SingleFile so far
    sf_ret        \* the last call on the SingleFile, with what it returned

singleVars == <<sf_append, sf_file, sf_cursor, sf_len, sf_calls, sf_ret>>

\* ------------------------------------------------------------------------
\* DataFile (datafile.rs) and its DataIterator
\* ------------------------------------------------------------------------
VARIABLES
    df_file,       \* DataFile.async_file: the pages handed to it, in order
    df_append_pos, \* DataFile.append_pos
    df_page,       \* DataFile.page: its offset and the writes into its payload
    df_entries,    \* the entries appended so far
    df_pc,         \* what the owner of the DataFile has done: "closed", "open",
                   \* "panicked", "flushed", "iterated"
    df_iter        \* the entries data_iter yielded until it returned None

dataVars == <<df_file, df_append_pos, df_page, df_entries, df_pc, df_iter>>

vars == <<asyncVars, poisonVars, dbVars, apiVars, appenderVars, singleVars, dataVars>>

\* the variables no AsyncFile action changes
notAsyncFailVars == <<dbVars, apiVars, appenderVars, singleVars, dataVars>>

\* the variables the AsyncFile actions leave alone while no thread panics
notAsyncVars == <<poisonVars, notAsyncFailVars>>

\* the variables the PageDB actions leave alone
notDbVars == <<asyncVars, poisonVars, apiVars, appenderVars, singleVars, dataVars>>

\* the variables the Hammersbald actions leave alone
notApiVars == <<asyncVars, poisonVars, dbVars, appenderVars, singleVars, dataVars>>

\* the variables the PagedFileAppender actions leave alone
notAppenderVars == <<asyncVars, poisonVars, dbVars, apiVars, singleVars, dataVars>>

\* the variables the SingleFile actions leave alone
notSingleVars == <<asyncVars, poisonVars, dbVars, apiVars, appenderVars, dataVars>>

\* the variables the DataFile actions leave alone
notDataVars == <<asyncVars, poisonVars, dbVars, apiVars, appenderVars, singleVars>>

\* AsyncFileInner::new and AsyncFile::new: empty queue, run = true, the worker
\* thread is spawned and has not yet locked the queue.
AsyncInit ==
    /\ queue = <<>>
    /\ run = TRUE
    /\ inner_file = <<>>
    /\ queue_lock = "none"
    /\ file_lock = "none"
    /\ bg_pc = "lock_queue"
    /\ fg_pc = "idle"
    /\ appended = 0
    /\ flushes = 0
    /\ reads = 0
    /\ inner_flushed = 0
    /\ spurious = 0
    /\ returned = "none"
    /\ queue_poison = FALSE
    /\ file_poison = FALSE
    /\ failures = 0
    /\ failed = "none"

\* a Mutex whose poison flag is never looked at
NeverPoisoned(flag) == FALSE

\* Mutex::lock().unwrap(): lock() returns Err when a thread panicked while it
\* held the guard, and unwrap() then panics in the caller.
Poisoned(flag) == flag

\* a notify that wakes nobody
NoNotifyWork(pc) == pc

\* Condvar::notify_one / notify_all on `work`: the worker leaves the wait if it
\* is in it, and must then take the queue lock again; otherwise nothing happens.
NotifyWork(pc) == IF pc = "wait_work" THEN "woken" ELSE pc

\* a notify_all on `flushed` that wakes nobody
NoNotifyFlushed(pc) == pc

\* Condvar::notify_all on `flushed`: a foreground flush or shutdown in its wait
\* leaves it and must take the queue lock again.
NotifyFlushed(pc) ==
    CASE pc = "fl_wait" -> "fl_woken"
      [] pc = "sd_wait" -> "sd_woken"
      [] OTHER -> pc

\* ---------------- the worker: AsyncFile::background ----------------------

\* let mut queue = inner.queue.lock()
BgLockQueue ==
    /\ bg_pc = "lock_queue"
    /\ ~Poisoned(queue_poison)
    /\ queue_lock = "none"
    /\ queue_lock' = "bg"
    /\ bg_pc' = "check_run"
    /\ UNCHANGED <<queue, run, inner_file, file_lock, fg_pc, appended, flushes, reads,
                   inner_flushed, spurious, returned>>
    /\ UNCHANGED notAsyncVars

\* while inner.run.load(Ordering::Acquire): leaving the loop ends the thread
\* and drops the queue guard.
BgCheckRun ==
    /\ bg_pc = "check_run"
    /\ IF run
         THEN /\ bg_pc' = "check_empty"
              /\ UNCHANGED queue_lock
         ELSE /\ bg_pc' = "exited"
              /\ queue_lock' = "none"
    /\ UNCHANGED <<queue, run, inner_file, file_lock, fg_pc, appended, flushes, reads,
                   inner_flushed, spurious, returned>>
    /\ UNCHANGED notAsyncVars

\* while queue.is_empty() { queue = inner.work.wait(queue) }: the wait
\* releases the queue lock.
BgCheckEmpty ==
    /\ bg_pc = "check_empty"
    /\ IF queue = <<>>
         THEN /\ bg_pc' = "wait_work"
              /\ queue_lock' = "none"
         ELSE /\ bg_pc' = "lock_file"
              /\ UNCHANGED queue_lock
    /\ UNCHANGED <<queue, run, inner_file, file_lock, fg_pc, appended, flushes, reads,
                   inner_flushed, spurious, returned>>
    /\ UNCHANGED notAsyncVars

\* a wait on a condition variable may end without a notification
BgSpuriousWake ==
    /\ bg_pc = "wait_work"
    /\ spurious < MaxSpurious
    /\ spurious' = spurious + 1
    /\ bg_pc' = "woken"
    /\ UNCHANGED <<queue, run, inner_file, queue_lock, file_lock, fg_pc, appended,
                   flushes, reads, inner_flushed, returned>>
    /\ UNCHANGED notAsyncVars

\* the end of work.wait: the queue lock is taken again
BgRelock ==
    /\ bg_pc = "woken"
    /\ ~Poisoned(queue_poison)
    /\ queue_lock = "none"
    /\ queue_lock' = "bg"
    /\ bg_pc' = "check_empty"
    /\ UNCHANGED <<queue, run, inner_file, file_lock, fg_pc, appended, flushes, reads,
                   inner_flushed, spurious, returned>>
    /\ UNCHANGED notAsyncVars

\* let mut file = inner.file.lock()
BgLockFile ==
    /\ bg_pc = "lock_file"
    /\ ~Poisoned(file_poison)
    /\ file_lock = "none"
    /\ file_lock' = "bg"
    /\ bg_pc' = "drain"
    /\ UNCHANGED <<queue, run, inner_file, queue_lock, fg_pc, appended, flushes, reads,
                   inner_flushed, spurious, returned>>
    /\ UNCHANGED notAsyncVars

\* what one turn of `while let Some(page) = queue.pop_front()` leaves in the queue
PopFront(q) == Tail(q)

\* what file.append_page(page) makes of the inner file
InnerAppend(f, page) == Append(f, page)

\* while let Some(page) = queue.pop_front() { file.append_page(page) }
BgDrain ==
    /\ bg_pc = "drain"
    /\ IF queue # <<>>
         THEN /\ inner_file' = InnerAppend(inner_file, Head(queue))
              /\ queue' = PopFront(queue)
              /\ bg_pc' = "drain"
         ELSE /\ bg_pc' = "notify"
              /\ UNCHANGED <<queue, inner_file>>
    /\ UNCHANGED <<run, queue_lock, file_lock, fg_pc, appended, flushes, reads,
                   inner_flushed, spurious, returned>>
    /\ UNCHANGED notAsyncVars

\* inner.flushed.notify_all(); the file guard is dropped at the end of the
\* loop body, the queue guard is kept.
BgNotify ==
    /\ bg_pc = "notify"
    /\ fg_pc' = NotifyFlushed(fg_pc)
    /\ file_lock' = "none"
    /\ bg_pc' = "check_run"
    /\ UNCHANGED <<queue, run, inner_file, queue_lock, appended, flushes, reads,
                   inner_flushed, spurious, returned>>
    /\ UNCHANGED notAsyncVars

\* ---------------- the foreground: impl PagedFile for AsyncFile -----------

\* append_page: let mut queue = self.inner.queue.lock()
FgAppendLock ==
    /\ fg_pc = "idle"
    /\ ~Poisoned(queue_poison)
    /\ appended < MaxPages
    /\ queue_lock = "none"
    /\ queue_lock' = "fg"
    /\ fg_pc' = "ap_push"
    /\ UNCHANGED <<queue, run, inner_file, file_lock, bg_pc, appended, flushes, reads,
                   inner_flushed, spurious, returned>>
    /\ UNCHANGED notAsyncVars

\* a push at the front of the queue
PushFront(q, page) == <<page>> \o q

\* what queue.push_back(page) makes of the queue
PushBack(q, page) == Append(q, page)

\* append_page: queue.push_back(page); work.notify_one(); Ok(()) drops the guard
FgAppendPush ==
    /\ fg_pc = "ap_push"
    /\ queue' = PushBack(queue, appended + 1)
    /\ appended' = appended + 1
    /\ bg_pc' = NotifyWork(bg_pc)
    /\ queue_lock' = "none"
    /\ fg_pc' = "idle"
    /\ returned' = "append_page"
    /\ UNCHANGED <<run, inner_file, file_lock, flushes, reads, inner_flushed, spurious>>
    /\ UNCHANGED notAsyncVars

\* read_page / len / sync: self.inner.file.lock()
FgReadLock ==
    /\ fg_pc = "idle"
    /\ ~Poisoned(file_poison)
    /\ reads < MaxReads
    /\ reads' = reads + 1
    /\ file_lock = "none"
    /\ file_lock' = "fg"
    /\ fg_pc' = "rd_read"
    /\ UNCHANGED <<queue, run, inner_file, queue_lock, bg_pc, appended, flushes,
                   inner_flushed, spurious, returned>>
    /\ UNCHANGED notAsyncVars

\* read_page / len / sync: the call on the inner file, then the guard is dropped
FgReadDone ==
    /\ fg_pc = "rd_read"
    /\ file_lock' = "none"
    /\ fg_pc' = "idle"
    /\ returned' = "read_page"
    /\ UNCHANGED <<queue, run, inner_file, queue_lock, bg_pc, appended, flushes, reads,
                   inner_flushed, spurious>>
    /\ UNCHANGED notAsyncVars

\* flush / shutdown: let mut queue = self.inner.queue.lock()
FgFlushLock(first) ==
    /\ fg_pc = "idle"
    /\ ~Poisoned(queue_poison)
    /\ queue_lock = "none"
    /\ queue_lock' = "fg"
    /\ fg_pc' = first
    /\ UNCHANGED <<queue, run, inner_file, file_lock, bg_pc, appended, reads,
                   inner_flushed, spurious, returned>>
    /\ UNCHANGED notAsyncVars

FgFlushStart ==
    /\ flushes < MaxFlush
    /\ flushes' = flushes + 1
    /\ FgFlushLock("fl_notify")

FgShutdownStart ==
    /\ UNCHANGED flushes
    /\ FgFlushLock("sd_notify")

\* flush / shutdown: self.inner.work.notify_one()
FgFlushNotify ==
    /\ fg_pc \in {"fl_notify", "sd_notify"}
    /\ bg_pc' = NotifyWork(bg_pc)
    /\ fg_pc' = IF fg_pc = "fl_notify" THEN "fl_check" ELSE "sd_check"
    /\ UNCHANGED <<queue, run, inner_file, queue_lock, file_lock, appended, flushes, reads,
                   inner_flushed, spurious, returned>>
    /\ UNCHANGED notAsyncVars

\* a flush that does not wait for the queue
NoWait(q) == FALSE

\* the condition of the foreground wait loop: while !queue.is_empty()
FlushMustWait(q) == q # <<>>

\* flush / shutdown: while !queue.is_empty() { queue = flushed.wait(queue) }
FgFlushCheck ==
    /\ fg_pc \in {"fl_check", "sd_check"}
    /\ IF FlushMustWait(queue)
         THEN /\ fg_pc' = IF fg_pc = "fl_check" THEN "fl_wait" ELSE "sd_wait"
              /\ queue_lock' = "none"
         ELSE /\ fg_pc' = IF fg_pc = "fl_check" THEN "fl_file" ELSE "sd_file"
              /\ UNCHANGED queue_lock
    /\ UNCHANGED <<queue, run, inner_file, file_lock, bg_pc, appended, flushes, reads,
                   inner_flushed, spurious, returned>>
    /\ UNCHANGED notAsyncVars

\* a wait on `flushed` may end without a notification
FgSpuriousWake ==
    /\ fg_pc \in {"fl_wait", "sd_wait"}
    /\ spurious < MaxSpurious
    /\ spurious' = spurious + 1
    /\ fg_pc' = NotifyFlushed(fg_pc)
    /\ UNCHANGED <<queue, run, inner_file, queue_lock, file_lock, bg_pc, appended,
                   flushes, reads, inner_flushed, returned>>
    /\ UNCHANGED notAsyncVars

\* the end of flushed.wait: the queue lock is taken again
FgFlushRelock ==
    /\ fg_pc \in {"fl_woken", "sd_woken"}
    /\ ~Poisoned(queue_poison)
    /\ queue_lock = "none"
    /\ queue_lock' = "fg"
    /\ fg_pc' = IF fg_pc = "fl_woken" THEN "fl_check" ELSE "sd_check"
    /\ UNCHANGED <<queue, run, inner_file, file_lock, bg_pc, appended, flushes, reads,
                   inner_flushed, spurious, returned>>
    /\ UNCHANGED notAsyncVars

\* flush / shutdown: let mut file = self.inner.file.lock(), the queue guard
\* is still alive
FgFlushLockFile ==
    /\ fg_pc \in {"fl_file", "sd_file"}
    /\ ~Poisoned(file_poison)
    /\ file_lock = "none"
    /\ file_lock' = "fg"
    /\ fg_pc' = IF fg_pc = "fl_file" THEN "fl_flush" ELSE "sd_flush"
    /\ UNCHANGED <<queue, run, inner_file, queue_lock, bg_pc, appended, flushes, reads,
                   inner_flushed, spurious, returned>>
    /\ UNCHANGED notAsyncVars

\* flush: file.flush(); both guards are dropped on return
FgFlushDone ==
    /\ fg_pc = "fl_flush"
    /\ inner_flushed' = Len(inner_file)
    /\ file_lock' = "none"
    /\ queue_lock' = "none"
    /\ fg_pc' = "idle"
    /\ returned' = "flush"
    /\ UNCHANGED <<queue, run, inner_file, bg_pc, appended, flushes, reads, spurious>>
    /\ UNCHANGED notAsyncVars

\* what shutdown stores into run
ShutdownRun == FALSE

\* shutdown: file.flush().unwrap(); self.inner.run.store(false); both guards
\* are dropped on return. The owner makes no call after shutdown.
FgShutdownDone ==
    /\ fg_pc = "sd_flush"
    /\ inner_flushed' = Len(inner_file)
    /\ run' = ShutdownRun
    /\ file_lock' = "none"
    /\ queue_lock' = "none"
    /\ fg_pc' = "shut"
    /\ returned' = "shutdown"
    /\ UNCHANGED <<queue, inner_file, bg_pc, appended, flushes, reads, spurious>>
    /\ UNCHANGED notAsyncVars

\* ---------------- panics: a failing inner file ---------------------------

\* foreground calls that may end in a panic
MaxFailures == 3

\* the calls that begin with self.inner.queue.lock().unwrap()
QueueCalls == {"append_page", "flush", "shutdown"}

\* the calls that begin with self.inner.file.lock().unwrap()
FileCalls == {"read_page", "len", "truncate", "sync"}

\* file.append_page(page) returns Err for the page just popped and
\* expect("can not extend data file") panics: the worker starts to unwind
\* with both guards alive.
BgFail ==
    /\ bg_pc = "drain"
    /\ queue # <<>>
    /\ queue' = PopFront(queue)
    /\ bg_pc' = "unwinding"
    /\ UNCHANGED <<run, inner_file, queue_lock, file_lock, fg_pc, appended, flushes,
                   reads, inner_flushed, spurious, returned>>
    /\ UNCHANGED notAsyncVars

\* the unwinding worker drops the file guard and the queue guard: each
\* MutexGuard dropped during a panic poisons its Mutex. The thread is gone.
BgUnwind ==
    /\ bg_pc = "unwinding"
    /\ file_lock' = "none"
    /\ file_poison' = TRUE
    /\ queue_lock' = "none"
    /\ queue_poison' = TRUE
    /\ bg_pc' = "panicked"
    /\ UNCHANGED <<queue, run, inner_file, fg_pc, appended, flushes, reads,
                   inner_flushed, spurious, returned, failures, failed>>
    /\ UNCHANGED notAsyncFailVars

\* append_page, flush, shutdown on a poisoned queue Mutex: lock() hands out
\* the guard inside an Err, unwrap() panics, the guard is dropped again.
FgPoisonedQueue ==
    /\ fg_pc = "idle"
    /\ failures < MaxFailures
    /\ queue_lock = "none"
    /\ Poisoned(queue_poison)
    /\ \E call \in QueueCalls : failed' = call
    /\ failures' = failures + 1
    /\ UNCHANGED <<asyncVars, queue_poison, file_poison, notAsyncFailVars>>

\* read_page, len, truncate, sync on a poisoned file Mutex
FgPoisonedFile ==
    /\ fg_pc = "idle"
    /\ failures < MaxFailures
    /\ file_lock = "none"
    /\ Poisoned(file_poison)
    /\ \E call \in FileCalls : failed' = call
    /\ failures' = failures + 1
    /\ UNCHANGED <<asyncVars, queue_poison, file_poison, notAsyncFailVars>>

\* a flush or shutdown whose flushed.wait(queue).unwrap() ends on a poisoned
\* queue Mutex: wait returns Err and the call panics
FgPoisonedWait ==
    /\ fg_pc \in {"fl_woken", "sd_woken"}
    /\ queue_lock = "none"
    /\ Poisoned(queue_poison)
    /\ failed' = IF fg_pc = "fl_woken" THEN "flush" ELSE "shutdown"
    /\ failures' = failures + 1
    /\ fg_pc' = "idle"
    /\ UNCHANGED <<queue, run, inner_file, queue_lock, file_lock, bg_pc, appended,
                   flushes, reads, inner_flushed, spurious, returned>>
    /\ UNCHANGED <<queue_poison, file_poison, notAsyncFailVars>>

\* the steps of the worker that the scheduler must eventually run
BgStep ==
    \/ BgLockQueue
    \/ BgCheckRun
    \/ BgCheckEmpty
    \/ BgRelock
    \/ BgLockFile
    \/ BgDrain
    \/ BgNotify

\* the steps that continue a foreground call already started
FgStep ==
    \/ FgAppendPush
    \/ FgReadDone
    \/ FgFlushNotify
    \/ FgFlushCheck
    \/ FgFlushRelock
    \/ FgFlushLockFile
    \/ FgFlushDone
    \/ FgShutdownDone

AsyncNext ==
    \/ BgLockQueue
    \/ BgCheckRun
    \/ BgCheckEmpty
    \/ BgSpuriousWake
    \/ BgRelock
    \/ BgLockFile
    \/ BgDrain
    \/ BgNotify
    \/ FgAppendLock
    \/ FgAppendPush
    \/ FgReadLock
    \/ FgReadDone
    \/ FgFlushStart
    \/ FgShutdownStart
    \/ FgFlushNotify
    \/ FgFlushCheck
    \/ FgSpuriousWake
    \/ FgFlushRelock
    \/ FgFlushLockFile
    \/ FgFlushDone
    \/ FgShutdownDone

\* the AsyncFile over an inner file whose append_page may fail
AsyncFailNext ==
    \/ AsyncNext
    \/ BgFail
    \/ BgUnwind
    \/ FgPoisonedQueue
    \/ FgPoisonedFile
    \/ FgPoisonedWait

\* ------------------------------------------------------------------------
\* PageDB (pagedb.rs): append, table writes, batch, crash and recover
\* ------------------------------------------------------------------------
\* entries stored over the life of the database
MaxEntries == 3
\* crashes over the life of the database
MaxCrashes == 2

\* the first n pages of a file: what truncate(n) leaves
Truncated(f, n) == IF n < Len(f) THEN SubSeq(f, 1, n) ELSE f

\* update_page: the page with number n is replaced, the file grows when n is
\* its length
UpdatePage(f, n, page) ==
    IF n < Len(f) THEN [f EXCEPT ![n + 1] = page] ELSE Append(f, page)

\* a header with the two lengths in each other's place
HeaderSwapped(data_len, table_len) ==
    [kind |-> "header", data_len |-> table_len, table_len |-> data_len]

\* the header page batch writes: magic, data_len at 2, table_len at 8
HeaderPage(data_len, table_len) ==
    [kind |-> "header", data_len |-> data_len, table_len |-> table_len]

\* a pre-image page of the log: a copy of a table page with its offset
PreImage(n, page) == [kind |-> "page", offset |-> n, content |-> page]

\* the table length the log's header holds (0 when the log has no header)
LoggedTableLen(l) == IF Len(l) > 0 THEN l[1].table_len ELSE 0

\* a fresh set of files; PageDB::new starts with recover
DbInit ==
    /\ data = <<>>
    /\ table = <<>>
    /\ log = <<>>
    /\ data_disk = {<<>>}
    /\ table_disk = {<<>>}
    /\ log_disk = {<<>>}
    /\ logged = {}
    /\ db_pc = "recover"
    /\ entry = 0
    /\ next_id = 0
    /\ rec_i = 0
    /\ crashes = 0
    /\ crash_pc = "none"
    /\ committed = <<<<>>, <<>>>>
    /\ target = <<<<>>, <<>>>>

\* PageDB::append_data_entry: self.data.append(entry); the entry gets the next
\* position of the data file
DbAppendData ==
    /\ db_pc = "running"
    /\ next_id < MaxEntries
    /\ next_id' = next_id + 1
    /\ entry' = next_id + 1
    /\ data' = Append(data, next_id + 1)
    /\ data_disk' = data_disk \cup {data'}
    /\ db_pc' = "indexing"
    /\ UNCHANGED <<table, log, table_disk, log_disk, logged, rec_i, crashes,
                   crash_pc, committed, target>>
    /\ UNCHANGED notDbVars

\* does the table file copy page n to the log before it overwrites it: the
\* first change of a page that existed when the batch began
MustLog(n, l, done) == n < LoggedTableLen(l) /\ n \notin done

\* PageDB::write_table_page: self.table.write_page(page). The caller stores the
\* entry in a bucket of its choice: an existing page or a new page at the end.
\* The pre-image goes to the log, flushed and synced, before the page changes.
DbWriteTablePage ==
    /\ db_pc = "indexing"
    /\ \E n \in 0..Len(table) :
         LET old == IF n < Len(table) THEN table[n + 1] ELSE {}
         IN  /\ IF MustLog(n, log, logged)
                  THEN /\ log' = Append(log, PreImage(n, old))
                       /\ log_disk' = {log'}
                       /\ logged' = logged \cup {n}
                  ELSE UNCHANGED <<log, log_disk, logged>>
             /\ table' = UpdatePage(table, n, old \cup {entry})
             /\ table_disk' = table_disk \cup {table'}
    /\ entry' = 0
    /\ db_pc' = "running"
    /\ UNCHANGED <<data, data_disk, next_id, rec_i, crashes, crash_pc, committed,
                   target>>
    /\ UNCHANGED notDbVars

\* a call of PageDB::batch: by the owner, or by PageDB::new after recover
DbBatchCall ==
    /\ db_pc \in {"running", "recovered"}
    /\ target' = <<data, table>>
    /\ db_pc' = "b_data"
    /\ UNCHANGED <<data, table, log, data_disk, table_disk, log_disk, logged,
                   entry, next_id, rec_i, crashes, crash_pc, committed>>
    /\ UNCHANGED notDbVars

\* batch: self.data.flush()?; self.data.sync()?
DbBatchData ==
    /\ db_pc = "b_data"
    /\ data_disk' = {data}
    /\ db_pc' = "b_table"
    /\ UNCHANGED <<data, table, log, table_disk, log_disk, logged, entry, next_id,
                   rec_i, crashes, crash_pc, committed, target>>
    /\ UNCHANGED notDbVars

\* batch: self.table.flush()?; self.table.sync()?
DbBatchTable ==
    /\ db_pc = "b_table"
    /\ table_disk' = {table}
    /\ db_pc' = "b_trunc"
    /\ UNCHANGED <<data, table, log, data_disk, log_disk, logged, entry, next_id,
                   rec_i, crashes, crash_pc, committed, target>>
    /\ UNCHANGED notDbVars

\* batch: log.truncate(Offset::new(0))?; log.reset()
DbBatchTruncate ==
    /\ db_pc = "b_trunc"
    /\ log' = Truncated(log, 0)
    /\ log_disk' = log_disk \cup {log'}
    /\ logged' = {}
    /\ db_pc' = "b_header"
    /\ UNCHANGED <<data, table, data_disk, table_disk, entry, next_id, rec_i,
                   crashes, crash_pc, committed, target>>
    /\ UNCHANGED notDbVars

\* batch: the header with data_len = self.data.len() and table_len =
\* self.table.len(); log.append_page(Arc::new(first))?
DbBatchHeader ==
    /\ db_pc = "b_header"
    /\ log' = Append(log, HeaderPage(Len(data), Len(table)))
    /\ log_disk' = log_disk \cup {log'}
    /\ db_pc' = "b_sync"
    /\ UNCHANGED <<data, table, data_disk, table_disk, logged, entry, next_id,
                   rec_i, crashes, crash_pc, committed, target>>
    /\ UNCHANGED notDbVars

\* batch: log.flush()?; log.sync()?; Ok(())
DbBatchSync ==
    /\ db_pc = "b_sync"
    /\ log_disk' = {log}
    /\ committed' = <<data, table>>
    /\ crash_pc' = "none"
    /\ db_pc' = "running"
    /\ UNCHANGED <<data, table, log, data_disk, table_disk, logged, entry, next_id,
                   rec_i, crashes, target>>
    /\ UNCHANGED notDbVars

\* the positions of the owner at which a crash is modelled: between two calls,
\* between append_data_entry and write_table_page, and before each step of batch
CrashPoints == {"running", "indexing", "b_data", "b_table", "b_trunc", "b_header", "b_sync"}

\* The process and the machine stop. Each file keeps the content of its last
\* sync or any content written since; memory is lost; the files are reopened
\* and PageDB::new runs recover.
DbCrash ==
    /\ db_pc \in CrashPoints
    /\ crashes < MaxCrashes
    /\ crashes' = crashes + 1
    /\ crash_pc' = db_pc
    /\ \E d \in data_disk, t \in table_disk, l \in log_disk :
         /\ data' = d
         /\ table' = t
         /\ log' = l
         /\ data_disk' = {d}
         /\ table_disk' = {t}
         /\ log_disk' = {l}
    /\ logged' = {}
    /\ entry' = 0
    /\ rec_i' = 0
    /\ db_pc' = "recover"
    /\ UNCHANGED <<next_id, committed, target>>
    /\ UNCHANGED notDbVars

\* recover: if log.len() > 0, the first page gives data_len;
\* self.data.truncate(data_len)?. Without a header recover returns at once.
DbRecoverData ==
    /\ db_pc = "recover"
    /\ IF Len(log) > 0
         THEN /\ data' = Truncated(data, log[1].data_len)
              /\ data_disk' = data_disk \cup {data'}
              /\ db_pc' = "r_table"
         ELSE /\ db_pc' = "recovered"
              /\ UNCHANGED <<data, data_disk>>
    /\ UNCHANGED <<table, log, table_disk, log_disk, logged, entry, next_id, rec_i,
                   crashes, crash_pc, committed, target>>
    /\ UNCHANGED notDbVars

\* recover: table_len from the first page; self.table.truncate(table_len)?
DbRecoverTable ==
    /\ db_pc = "r_table"
    /\ table' = Truncated(table, log[1].table_len)
    /\ table_disk' = table_disk \cup {table'}
    /\ rec_i' = 2
    /\ db_pc' = "r_pages"
    /\ UNCHANGED <<data, log, data_disk, log_disk, logged, entry, next_id, crashes,
                   crash_pc, committed, target>>
    /\ UNCHANGED notDbVars

\* a recover that writes no page of the log back
RestoresNothing(page, table_len) == FALSE

\* is a page of the log written back by recover: page.offset < table_len
Restores(page, table_len) == page.offset < table_len

\* recover: for page in log_pages { if page.offset < table_len
\* { self.table.write_page(page) } }
DbRecoverPage ==
    /\ db_pc = "r_pages"
    /\ IF rec_i <= Len(log)
         THEN /\ IF Restores(log[rec_i], log[1].table_len)
                   THEN /\ table' = UpdatePage(table, log[rec_i].offset, log[rec_i].content)
                        /\ table_disk' = table_disk \cup {table'}
                   ELSE UNCHANGED <<table, table_disk>>
              /\ rec_i' = rec_i + 1
              /\ UNCHANGED db_pc
         ELSE /\ db_pc' = "r_log"
              /\ UNCHANGED <<table, table_disk, rec_i>>
    /\ UNCHANGED <<data, log, data_disk, log_disk, logged, entry, next_id, crashes,
                   crash_pc, committed, target>>
    /\ UNCHANGED notDbVars

\* recover: log.truncate(Offset::new(0)?)?; log.sync()?; Ok(())
DbRecoverLog ==
    /\ db_pc = "r_log"
    /\ log' = Truncated(log, 0)
    /\ log_disk' = {log'}
    /\ rec_i' = 0
    /\ db_pc' = "recovered"
    /\ UNCHANGED <<data, table, data_disk, table_disk, logged, entry, next_id,
                   crashes, crash_pc, committed, target>>
    /\ UNCHANGED notDbVars

DbNext ==
    \/ DbAppendData
    \/ DbWriteTablePage
    \/ DbBatchCall
    \/ DbBatchData
    \/ DbBatchTable
    \/ DbBatchTruncate
    \/ DbBatchHeader
    \/ DbBatchSync
    \/ DbCrash
    \/ DbRecoverData
    \/ DbRecoverTable
    \/ DbRecoverPage
    \/ DbRecoverLog

\* ------------------------------------------------------------------------
\* Hammersbald (api.rs) over the MemTable, the data file and the link file
\* ------------------------------------------------------------------------
\* records a run may append to the data file
MaxRecords == 3
\* keys are the one-byte strings <<1>> .. <<MaxKeys>>
MaxKeys == 3
Keys == {<<k>> : k \in 1..MaxKeys}

\* bucket_fill_target values a database is opened with
FillTargets == 1..2

\* page.rs: bytes of a page, and bytes of a page that carry records
PAGE_SIZE == 4096

PAGE_PAYLOAD_SIZE == PAGE_SIZE - 6

\* the magic bytes init writes at the start of the data and of the link file
MAGIC == <<188, 218>>

\* what a caller stores: <<data, referred>>, a data value of one byte with no
\* references, or another one with a reference to the position of the first
\* record of the file (a forward reference when that record itself is put)
Payloads == {<<<<1>>, <<>>>>, <<<<2>>, <<Len(MAGIC)>>>>}

\* PRef::invalid(), "no reference": above every position of a file (the
\* program's 0xFFFFFFFFFFFF does not fit the 32-bit integers used here)
invalid == 2^30

Min(a, b) == IF a < b THEN a ELSE b

Reverse(s) == [i \in 1..Len(s) |-> s[Len(s) + 1 - i]]

\* PRef::in_page_pos
in_page_pos(pos) == pos % PAGE_SIZE

\* PagedFileAppender::append: the appender's position after it appended n
\* bytes at pos; a page's last bytes, its link to the previous page, are
\* skipped
RECURSIVE append_end(_, _)
append_end(pos, n) ==
    IF n = 0 THEN pos
    ELSE LET space == Min(PAGE_PAYLOAD_SIZE - in_page_pos(pos), n)
             p1 == pos + space
             p2 == IF in_page_pos(p1) = PAGE_PAYLOAD_SIZE
                   THEN p1 + (PAGE_SIZE - PAGE_PAYLOAD_SIZE)
                   ELSE p1
         IN  append_end(p2, n - space)

\* a flush that goes back to the start of the page in progress
flush_rewind(pos) == pos - in_page_pos(pos)

\* a flush that leaves the position where it was
flush_stay(pos) == pos

\* PagedFileAppender::flush: a page that holds bytes is written out and the
\* position moves to the start of the next page (a position within a page
\* is reached only by appending, so the appender holds that page)
flush_end(pos) ==
    IF in_page_pos(pos) > 0 THEN pos + PAGE_SIZE - in_page_pos(pos) ELSE pos

\* bytes of an envelope: kind, 3 bytes of length, and the payload
EnvelopeLen(payload_len) == 1 + 3 + payload_len

\* bytes of data with its references: data_len, data, referred_count,
\* the references and the pointer to the previous record
DataLen(d, referred) == 3 + Len(d) + 1 + 6 * Len(referred) + 6

\* bytes of an indexed record: key_len, key, and the data
IndexedLen(key, d, referred) == EnvelopeLen(1 + Len(key) + DataLen(d, referred))

\* bytes of a referred record: as indexed, without the key field
ReferredLen(d, referred) == EnvelopeLen(DataLen(d, referred))

\* bytes of a link record: n entries of hash and PRef, and the previous link
LinkLen(n) == EnvelopeLen(n * (4 + 6) + 6)

\* MemTable::hash: a fixed function of the key, for one choice of the keys
\* sip0, sip1 of the database; keys <<2>> and <<3>> collide
hash(key) == ((key[1] \div 2) * 2) % 8

\* MemTable::get, the bucket of a hash, with the mistake of never taking
\* the bucket of the next round
BucketNumberNoStep(h) == h % (2 ^ log_mod)

\* MemTable::get, the bucket of a hash: hash % 2^log_mod, and
\* hash % 2^(log_mod + 1) for a bucket that was split in this round
\* (log_mod >= 1 in every state of SpecApi, so the shifts by 32 - log_mod
\* and 32 - log_mod - 1 stay below 32)
BucketNumber(h) ==
    LET bucket_number == h % (2 ^ log_mod)
    IN  IF bucket_number < step THEN h % (2 ^ (log_mod + 1)) ELSE bucket_number

\* the record of the data file at a position
EnvelopeAt(pref) == CHOOSE e \in {envelopes[i] : i \in 1..Len(envelopes)} : e.pos = pref

HasEnvelope(pref) == \E i \in 1..Len(envelopes) : envelopes[i].pos = pref

\* the state of the table and of the link file, as one value
Mem == [buckets |-> buckets, links |-> links, link_pos |-> link_pos,
        log_mod |-> log_mod, step |-> step]

EmptyBucket == [slots |-> <<>>, link |-> invalid]

\* the entries of a chain of link records, oldest first
RECURSIVE ChainEntries(_, _)
ChainEntries(lks, link) ==
    IF link = invalid THEN <<>>
    ELSE LET l == CHOOSE x \in {lks[i] : i \in 1..Len(lks)} : x.pos = link
         IN  ChainEntries(lks, l.prev) \o l.entries

\* every entry of a bucket in the order inserted: its chain of link records
\* from the oldest one, then its in-slot entries
BucketEntries(m, b) ==
    ChainEntries(m.links, m.buckets[b + 1].link) \o m.buckets[b + 1].slots

\* MemTable, insert into a bucket: in-slot while fewer than F entries are
\* there; otherwise the in-slot entries and the new one go to a new link
\* record that points to the bucket's previous link
Insert(m, b, e) ==
    LET bucket == m.buckets[b + 1]
    IN  IF Len(bucket.slots) < bucket_fill_target
        THEN [m EXCEPT !.buckets[b + 1].slots = Append(@, e)]
        ELSE [m EXCEPT
                 !.buckets[b + 1] = [slots |-> <<>>, link |-> m.link_pos],
                 !.links = Append(@, [pos |-> m.link_pos,
                                      entries |-> Append(bucket.slots, e),
                                      prev |-> bucket.link]),
                 !.link_pos = append_end(@, LinkLen(Len(bucket.slots) + 1))]

\* a split that writes back the newest F entries only
RefillNewest(m, b, es) ==
    [m EXCEPT !.buckets[b + 1] =
        [slots |-> SubSeq(es, IF Len(es) > bucket_fill_target
                              THEN Len(es) - bucket_fill_target + 1 ELSE 1, Len(es)),
         link |-> invalid]]

\* MemTable, write a bucket of a split: the newest F entries in-slot, the
\* older ones in a new link record
Refill(m, b, es) ==
    IF Len(es) <= bucket_fill_target
    THEN [m EXCEPT !.buckets[b + 1] = [slots |-> es, link |-> invalid]]
    ELSE LET n == Len(es) - bucket_fill_target
         IN  [m EXCEPT
                 !.buckets[b + 1] = [slots |-> SubSeq(es, n + 1, Len(es)),
                                     link |-> m.link_pos],
                 !.links = Append(@, [pos |-> m.link_pos,
                                      entries |-> SubSeq(es, 1, n),
                                      prev |-> invalid]),
                 !.link_pos = append_end(@, LinkLen(n))]

\* MemTable, the split of bucket `step`
Split(m) ==
    LET old == m.step
        new == m.step + 2 ^ m.log_mod
        es == BucketEntries(m, old)
        Moves(e) == e[1] % (2 ^ (m.log_mod + 1)) = new
        Stays(e) == ~Moves(e)
        m1 == [m EXCEPT !.buckets = Append(@, EmptyBucket)]
        m2 == Refill(m1, old, SelectSeq(es, Stays))
        m3 == Refill(m2, new, SelectSeq(es, Moves))
    IN  IF m.step + 1 = 2 ^ m.log_mod
        THEN [m3 EXCEPT !.log_mod = @ + 1, !.step = 0]
        ELSE [m3 EXCEPT !.step = @ + 1]

\* MemTable, the split is due: entries / buckets > F
MustSplit(n, m) == n > bucket_fill_target * Len(m.buckets)

\* MemTable::put: index the record at data_offset under the key
MemPut(key, data_offset) ==
    LET m == Insert(Mem, BucketNumber(hash(key)), <<hash(key), data_offset>>)
    IN  IF MustSplit(nkeys + 1, m) THEN Split(m) ELSE m

\* lookup, with the mistake of scanning from the oldest entry
OldestFirst(es) == es

\* lookup, the order the entries of a bucket are tried in: in-slot in reverse
\* insertion order, then the chain from the newest to the oldest
Candidates(es) == Reverse(es)

\* MemTable::get: the newest entry of the key's bucket with the key's hash
\* whose record holds the key
MemGet(key) ==
    LET h == hash(key)
        Matches(e) == e[1] = h /\ HasEnvelope(e[2]) /\ EnvelopeAt(e[2]).key = key
        found == SelectSeq(Candidates(BucketEntries(Mem, BucketNumber(h))), Matches)
    IN  IF found = <<>> THEN <<>>
        ELSE LET e == EnvelopeAt(found[1][2]) IN <<e.pos, e.data, e.referred>>

\* api.rs put, the first check of a debug build
TooLong(key, d) == Len(key) > 255 \/ Len(d) >= 2 ^ 23

\* api.rs put and put_referred, the second check of a debug build
ForwardReference(referred, data_offset) ==
    \E i \in 1..Len(referred) : referred[i] >= data_offset

ApiInit ==
    /\ debug_assertions \in BOOLEAN
    /\ bucket_fill_target \in FillTargets
    /\ envelopes = <<>>
    /\ data_pos = Len(MAGIC)
    /\ links = <<>>
    /\ link_pos = Len(MAGIC)
    /\ log_mod = 1
    /\ step = 0
    /\ buckets = [b \in 1..2 |-> EmptyBucket]
    /\ nkeys = 0
    /\ stored = <<>>
    /\ ret = [op |-> "init"]

\* HammersbaldAPI::put(key, data, referred) with payload = <<data, referred>>
PutCall(key, payload) ==
         LET d == payload[1]
             referred == payload[2]
         IN
         IF debug_assertions /\ TooLong(key, d)
         THEN /\ ret' = [op |-> "put", result |-> "ForwardReference", key |-> key]
              /\ UNCHANGED <<debug_assertions, bucket_fill_target,
                             envelopes, data_pos, links, link_pos, buckets,
                             log_mod, step, nkeys, stored>>
         ELSE LET data_offset == data_pos
              IN  /\ envelopes' = Append(envelopes,
                        [pos |-> data_offset, kind |-> "Indexed", key |-> key,
                         data |-> d, referred |-> referred])
                  /\ data_pos' = append_end(data_pos, IndexedLen(key, d, referred))
                  /\ IF debug_assertions /\ ForwardReference(referred, data_offset)
                     THEN /\ ret' = [op |-> "put", result |-> "ForwardReference"]
                          /\ UNCHANGED <<links, link_pos, buckets, log_mod,
                                         step, nkeys, stored>>
                     ELSE LET m == MemPut(key, data_offset)
                          IN  /\ buckets' = m.buckets
                              /\ links' = m.links
                              /\ link_pos' = m.link_pos
                              /\ log_mod' = m.log_mod
                              /\ step' = m.step
                              /\ nkeys' = nkeys + 1
                              /\ stored' = Append(stored,
                                    [key |-> key, data |-> d,
                                     referred |-> referred, pref |-> data_offset])
                              /\ ret' = [op |-> "put", result |-> "Ok",
                                         pref |-> data_offset]
                  /\ UNCHANGED <<debug_assertions, bucket_fill_target>>

\* HammersbaldAPI::put
ApiPut ==
    /\ Len(envelopes) < MaxRecords
    /\ \E key \in Keys, payload \in Payloads : PutCall(key, payload)
    /\ UNCHANGED notApiVars

\* a key of 256 bytes, one byte more than the length a put accepts
LongKeys == {[i \in 1..256 |-> 1]}

\* HammersbaldAPI::put with a key of more than 255 bytes, in a debug build
\* (in a release build such a key goes unchecked to MemTable::append_data)
ApiPutLong ==
    /\ debug_assertions
    /\ \E key \in LongKeys, payload \in Payloads : PutCall(key, payload)
    /\ UNCHANGED notApiVars

\* HammersbaldAPI::get
ApiGet ==
    /\ \E key \in Keys : ret' = [op |-> "get", key |-> key, value |-> MemGet(key)]
    /\ UNCHANGED <<debug_assertions, bucket_fill_target, envelopes,
                   data_pos, links, link_pos, buckets, log_mod, step, nkeys,
                   stored>>
    /\ UNCHANGED notApiVars

\* HammersbaldAPI::put_referred
ApiPutReferred ==
    /\ Len(envelopes) < MaxRecords
    /\ \E payload \in Payloads :
         LET d == payload[1]
             referred == payload[2]
             data_offset == data_pos
         IN  /\ envelopes' = Append(envelopes,
                   [pos |-> data_offset, kind |-> "Referred", key |-> <<>>,
                    data |-> d, referred |-> referred])
             /\ data_pos' = append_end(data_pos, ReferredLen(d, referred))
             /\ IF debug_assertions /\ ForwardReference(referred, data_offset)
                THEN /\ ret' = [op |-> "put_referred", result |-> "ForwardReference"]
                     /\ UNCHANGED stored
                ELSE /\ stored' = Append(stored,
                           [key |-> <<>>, data |-> d, referred |-> referred,
                            pref |-> data_offset])
                     /\ ret' = [op |-> "put_referred", result |-> "Ok",
                                pref |-> data_offset]
    /\ UNCHANGED <<debug_assertions, bucket_fill_target, links, link_pos,
                   buckets, log_mod, step, nkeys>>
    /\ UNCHANGED notApiVars

\* get_referred, with the mistake of dropping the key of an indexed record
NoKey(envelope) == <<<<>>, envelope.data, envelope.referred>>

\* HammersbaldAPI::get_referred, the match on the payload of the envelope
GetReferredResult(envelope) ==
    IF envelope.kind = "Referred"
    THEN <<<<>>, envelope.data, envelope.referred>>
    ELSE <<envelope.key, envelope.data, envelope.referred>>

\* HammersbaldAPI::get_referred, called with a PRef a put or put_referred
\* returned
ApiGetReferred ==
    /\ \E i \in 1..Len(stored) :
         LET pref == stored[i].pref
         IN  ret' = [op |-> "get_referred", pref |-> pref,
                     value |-> GetReferredResult(EnvelopeAt(pref))]
    /\ UNCHANGED <<debug_assertions, bucket_fill_target, envelopes,
                   data_pos, links, link_pos, buckets, log_mod, step, nkeys,
                   stored>>
    /\ UNCHANGED notApiVars

\* HammersbaldAPI::batch: the data file and the link file are flushed, which
\* ends the page each appender is in
ApiBatch ==
    /\ data_pos' = flush_end(data_pos)
    /\ link_pos' = flush_end(link_pos)
    /\ ret' = [op |-> "batch"]
    /\ UNCHANGED <<debug_assertions, bucket_fill_target, envelopes,
                   links, buckets, log_mod, step, nkeys, stored>>
    /\ UNCHANGED notApiVars

ApiNext ==
    \/ ApiPut
    \/ ApiGet
    \/ ApiPutReferred
    \/ ApiGetReferred
    \/ ApiBatch

\* puts that fill the table of buckets
MaxTablePuts == 5

\* HammersbaldAPI::put of records without references, one after the other
TablePut ==
    /\ Len(envelopes) < MaxTablePuts
    /\ \E key \in Keys : PutCall(key, <<<<1>>, <<>>>>)
    /\ UNCHANGED notApiVars

\* the API with keys of any length
ApiLongNext ==
    \/ ApiNext
    \/ ApiPutLong

\* ------------------------------------------------------------------------
\* PagedFileAppender (pagedfile.rs): append, advance, flush, read_page, read
\* ------------------------------------------------------------------------
\* calls on one appender
MaxAppenderCalls == 4

\* pages already in the inner file when the appender is created
MaxOldPages == 1

\* lengths of the slices a caller appends: one byte, a slice that ends one
\* byte before the payload of an empty page is full, one that is one byte
\* longer than a page's payload
Slices == {1, PAGE_PAYLOAD_SIZE - 1, PAGE_PAYLOAD_SIZE + 1}

\* PRef::this_page: the start of the page a position lies in
this_page(pos) == pos - in_page_pos(pos)

\* Page::new(lep): no byte written yet. The payload is a sequence of runs
\* [at, len, id, from]: len bytes at offset at, bytes from.. of slice id;
\* offsets no run covers hold zero. pref is the trailing field.
NewPage(lep) == [segs |-> <<>>, pref |-> lep]

\* the run that is left of a run between the offsets a and b of its page
ClipRun(r, a, b) ==
    LET lo == IF r.at > a THEN r.at ELSE a
        hi == Min(r.at + r.len, b)
    IN  IF hi > lo
        THEN <<[at |-> lo, len |-> hi - lo, id |-> r.id, from |-> r.from + (lo - r.at)]>>
        ELSE <<>>

RECURSIVE ClipRuns(_, _, _)
ClipRuns(segs, a, b) ==
    IF segs = <<>> THEN <<>>
    ELSE ClipRun(Head(segs), a, b) \o ClipRuns(Tail(segs), a, b)

\* Page::write(pos, slice): the bytes overwrite what the page held there
PageWrite(page, at, slice) ==
    [page EXCEPT !.segs = ClipRuns(page.segs, 0, at)
                          \o <<[at |-> at, len |-> slice.len, id |-> slice.id,
                                from |-> slice.from]>>
                          \o ClipRuns(page.segs, at + slice.len, PAGE_SIZE)]

\* a hand-off that leaves the trailing field as Page::new set it
write_no_pref(page, lep) == page

\* Page::write_pref(PAGE_PAYLOAD_SIZE, lep): the trailing field of the page
write_pref(page, lep) == [page EXCEPT !.pref = lep]

\* Page::read(pos, buf): the bytes between the offsets a and b as runs
\* [id, from, len]; id 0 stands for bytes never written
RECURSIVE PageRead(_, _, _)
PageRead(segs, a, b) ==
    IF a >= b THEN <<>>
    ELSE IF segs = <<>> THEN <<[id |-> 0, from |-> 0, len |-> b - a]>>
    ELSE LET r == Head(segs)
         IN  IF r.at + r.len <= a THEN PageRead(Tail(segs), a, b)
             ELSE IF r.at >= b THEN <<[id |-> 0, from |-> 0, len |-> b - a]>>
             ELSE IF r.at > a
                  THEN <<[id |-> 0, from |-> 0, len |-> r.at - a]>>
                       \o PageRead(segs, r.at, b)
             ELSE LET hi == Min(r.at + r.len, b)
                  IN  <<[id |-> r.id, from |-> r.from + (a - r.at), len |-> hi - a]>>
                      \o PageRead(Tail(segs), hi, b)

\* read_page of the synchronous inner file: None at or past its length
InnerReadPage(f, pref) ==
    IF pref \div PAGE_SIZE < Len(f) THEN <<f[(pref \div PAGE_SIZE) + 1]>> ELSE <<>>

\* PagedFileAppender::new(file, pos, lep) on an inner file of whole pages
AppenderInit ==
    /\ \E old \in 0..MaxOldPages :
          /\ ap_file = [i \in 1..old |-> NewPage(invalid)]
          /\ ap_pos = old * PAGE_SIZE
    /\ ap_page = <<>>
    /\ ap_lep = invalid
    /\ ap_calls = 0
    /\ ap_ret = [op |-> "new"]
    /\ ap_appends = <<>>
    /\ ap_dirty = {}

\* the loop of PagedFileAppender::append: st holds pos, page and the inner
\* file, wrote counts the bytes of slice id (n bytes) copied so far
RECURSIVE AppendLoop(_, _, _, _, _)
AppendLoop(st, lep, id, n, wrote) ==
    IF wrote >= n THEN st
    ELSE LET page0 == IF st.page = <<>> THEN NewPage(lep) ELSE st.page[1]
             space == Min(PAGE_PAYLOAD_SIZE - in_page_pos(st.pos), n - wrote)
             page1 == PageWrite(page0, in_page_pos(st.pos),
                                [id |-> id, from |-> wrote, len |-> space])
             pos1 == st.pos + space
             full == in_page_pos(pos1) = PAGE_PAYLOAD_SIZE
             page2 == IF full THEN write_pref(page1, lep) ELSE page1
             file2 == IF full THEN Append(st.file, page2) ELSE st.file
             pos2 == IF full THEN pos1 + (PAGE_SIZE - PAGE_PAYLOAD_SIZE) ELSE pos1
         IN  AppendLoop([pos |-> pos2,
                         page |-> IF in_page_pos(pos2) = 0 THEN <<>> ELSE <<page2>>,
                         file |-> file2],
                        lep, id, n, wrote + space)

\* the pages that receive the bytes of a slice of n bytes appended at pos
PagesWritten(pos, n) ==
    {p \in {k * PAGE_SIZE : k \in 0..(MaxOldPages + 2 * MaxAppenderCalls + 2)} :
        /\ this_page(pos) <= p
        /\ p <= this_page(append_end(pos, n - 1))}

\* PagedFileAppender::append(buf): Ok(self.pos) after the loop
ApAppend ==
    /\ ap_calls < MaxAppenderCalls
    /\ \E n \in Slices :
          LET id == Len(ap_appends) + 1
              st == AppendLoop([pos |-> ap_pos, page |-> ap_page, file |-> ap_file],
                               ap_lep, id, n, 0)
              call == [op |-> "append", id |-> id, n |-> n, before |-> ap_pos,
                       value |-> st.pos]
          IN  /\ ap_pos' = st.pos
              /\ ap_page' = st.page
              /\ ap_file' = st.file
              /\ ap_ret' = call
              /\ ap_appends' = Append(ap_appends, call)
              /\ ap_dirty' = ap_dirty \cup PagesWritten(ap_pos, n)
    /\ ap_calls' = ap_calls + 1
    /\ UNCHANGED ap_lep
    /\ UNCHANGED notAppenderVars

\* PagedFileAppender::advance
ApAdvance ==
    /\ ap_calls < MaxAppenderCalls
    /\ ap_lep' = ap_pos
    /\ ap_calls' = ap_calls + 1
    /\ ap_ret' = [op |-> "advance"]
    /\ UNCHANGED <<ap_file, ap_pos, ap_page, ap_appends, ap_dirty>>
    /\ UNCHANGED notAppenderVars

\* PagedFileAppender::flush: a page that holds bytes gets its trailing field
\* and goes to the inner file, pos moves to the next page; self.page stays
\* Some(page). The flush of the synchronous inner file changes nothing.
ApFlush ==
    /\ ap_calls < MaxAppenderCalls
    /\ IF ap_page # <<>> /\ in_page_pos(ap_pos) > 0
         THEN LET page == write_pref(ap_page[1], ap_lep)
              IN  /\ ap_page' = <<page>>
                  /\ ap_file' = Append(ap_file, page)
                  /\ ap_pos' = flush_end(ap_pos)
         ELSE UNCHANGED <<ap_page, ap_file, ap_pos>>
    /\ ap_calls' = ap_calls + 1
    /\ ap_ret' = [op |-> "flush"]
    /\ ap_dirty' = {}
    /\ UNCHANGED <<ap_lep, ap_appends>>
    /\ UNCHANGED notAppenderVars

\* a read_page that asks the inner file only
InnerOnlyReadPage(pref) == InnerReadPage(ap_file, pref)

\* impl PagedFile for PagedFileAppender: read_page(pref), the page in
\* progress when pref is the page of pos, else the inner file's page
ApReadPage(pref) ==
    IF ap_page # <<>> /\ this_page(ap_pos) = pref
    THEN <<ap_page[1]>>
    ELSE InnerReadPage(ap_file, pref)

\* the loop of PagedFileAppender::read(pos, buf) for a buf of n bytes: the
\* position reached and the bytes read, as runs
RECURSIVE ReadLoop(_, _, _, _)
ReadLoop(pos, n, read, bytes) ==
    IF read >= n THEN [pos |-> pos, bytes |-> bytes]
    ELSE LET page == ApReadPage(this_page(pos))
         IN  IF page = <<>> THEN [pos |-> pos, bytes |-> bytes]
             ELSE LET have == Min(PAGE_PAYLOAD_SIZE - in_page_pos(pos), n - read)
                      pos1 == pos + have
                      pos2 == IF in_page_pos(pos1) = PAGE_PAYLOAD_SIZE
                              THEN pos1 + (PAGE_SIZE - PAGE_PAYLOAD_SIZE)
                              ELSE pos1
                  IN  ReadLoop(pos2, n, read + have,
                               bytes \o PageRead(page[1].segs, in_page_pos(pos),
                                                 in_page_pos(pos) + have))

\* PagedFileAppender::read(pos, buf)
ApRead(pos, n) == ReadLoop(pos, n, 0, <<>>)

AppenderNext ==
    \/ ApAppend
    \/ ApAdvance
    \/ ApFlush

\* ------------------------------------------------------------------------
\* SingleFile (singlefile.rs): read_page, update_page, truncate, append_page
\* ------------------------------------------------------------------------
\* calls on one SingleFile
MaxSingleCalls == 4

\* pages of the file when the SingleFile is created, and the page positions
\* a caller names
MaxSinglePages == 2

\* the page positions and page-aligned lengths a caller names
PagePositions == {k * PAGE_SIZE : k \in 0..MaxSinglePages}

\* a page of zero bytes: what a File gives for a hole, and what the buffer of
\* read_page holds when nothing is read into it
ZeroPage == <<"zero", 0>>

\* the page of a File at a byte position, ZeroPage where it has none
PageAt(f, pos) ==
    IF pos \div PAGE_SIZE < Len(f) THEN f[(pos \div PAGE_SIZE) + 1] ELSE ZeroPage

\* File::write of one page at a position: the page at or before the end is
\* overwritten, a write past the end leaves a hole of zero pages before it
WriteAt(f, pos, page) ==
    LET n == pos \div PAGE_SIZE
    IN  [i \in 1..(IF n + 1 > Len(f) THEN n + 1 ELSE Len(f)) |->
            IF i = n + 1 THEN page
            ELSE IF i <= Len(f) THEN f[i] ELSE ZeroPage]

\* File::set_len: cut, or extended with zero pages
SetLen(f, new_len) ==
    [i \in 1..(new_len \div PAGE_SIZE) |-> IF i <= Len(f) THEN f[i] ELSE ZeroPage]

\* where File::write puts its bytes: at the end of a File opened for append,
\* else at the File's position
WritePos(f, cursor) == IF sf_append THEN Len(f) * PAGE_SIZE ELSE cursor

\* SingleFile::new(file): len = file.seek(SeekFrom::End(0)), which leaves the
\* File's position at its end
SingleInit ==
    /\ sf_append \in BOOLEAN
    /\ \E old \in 0..MaxSinglePages :
          /\ sf_file = [i \in 1..old |-> <<"old", i>>]
          /\ sf_cursor = old * PAGE_SIZE
          /\ sf_len = old * PAGE_SIZE
    /\ sf_calls = 0
    /\ sf_ret = [op |-> "new"]

\* SingleFile::read_page(pref), base = 0: None at or past self.len and the
\* File is not touched; else seek(Start(pos)) and read, which moves the
\* File's position past the bytes read
SfReadPage ==
    /\ sf_calls < MaxSingleCalls
    /\ \E pos \in PagePositions :
          IF pos >= sf_len
          THEN /\ sf_ret' = [op |-> "read_page", pos |-> pos, value |-> <<>>]
               /\ UNCHANGED sf_cursor
          ELSE /\ sf_ret' = [op |-> "read_page", pos |-> pos,
                             value |-> <<PageAt(sf_file, pos)>>]
               /\ sf_cursor' = IF pos \div PAGE_SIZE < Len(sf_file)
                               THEN pos + PAGE_SIZE ELSE pos
    /\ sf_calls' = sf_calls + 1
    /\ UNCHANGED <<sf_append, sf_file, sf_len>>
    /\ UNCHANGED notSingleVars

\* SingleFile::update_page(page), base = 0: seek(Start(pos)), write,
\* len = max(len, pos + PAGE_SIZE)
SfUpdatePage ==
    /\ sf_calls < MaxSingleCalls
    /\ \E pos \in PagePositions :
          LET page == <<"new", sf_calls + 1>>
              at == WritePos(sf_file, pos)
          IN  /\ sf_file' = WriteAt(sf_file, at, page)
              /\ sf_cursor' = at + PAGE_SIZE
              /\ sf_len' = IF sf_len > pos + PAGE_SIZE THEN sf_len ELSE pos + PAGE_SIZE
              /\ sf_ret' = [op |-> "update_page", pos |-> pos, page |-> page]
    /\ sf_calls' = sf_calls + 1
    /\ UNCHANGED sf_append
    /\ UNCHANGED notSingleVars

\* SingleFile::truncate(new_len): self.len = new_len; set_len(new_len), which
\* does not move the File's position
SfTruncate ==
    /\ sf_calls < MaxSingleCalls
    /\ \E new_len \in PagePositions :
          /\ sf_len' = new_len
          /\ sf_file' = SetLen(sf_file, new_len)
          /\ sf_ret' = [op |-> "truncate", new_len |-> new_len]
    /\ sf_calls' = sf_calls + 1
    /\ UNCHANGED <<sf_append, sf_cursor>>
    /\ UNCHANGED notSingleVars

\* SingleFile::append_page(page): file.write(&page.into_buf()) with no seek,
\* self.len += PAGE_SIZE. The call record keeps self.len and the File as
\* they were before the call.
SfAppendPage ==
    /\ sf_calls < MaxSingleCalls
    /\ LET page == <<"new", sf_calls + 1>>
           at == WritePos(sf_file, sf_cursor)
       IN  /\ sf_file' = WriteAt(sf_file, at, page)
           /\ sf_cursor' = at + PAGE_SIZE
           /\ sf_len' = sf_len + PAGE_SIZE
           /\ sf_ret' = [op |-> "append_page", page |-> page, len |-> sf_len,
                         file |-> sf_file]
    /\ sf_calls' = sf_calls + 1
    /\ UNCHANGED sf_append
    /\ UNCHANGED notSingleVars

\* what read_page(pos) returns in the current state
SfReadResult(pos) == IF pos >= sf_len THEN <<>> ELSE <<PageAt(sf_file, pos)>>

SingleNext ==
    \/ SfReadPage
    \/ SfUpdatePage
    \/ SfTruncate
    \/ SfAppendPage

\* ------------------------------------------------------------------------
\* Specifications
\* ------------------------------------------------------------------------
\* the parts a specification does not run stay in a fixed state
AsyncIdle ==
    /\ queue = <<>>
    /\ run = TRUE
    /\ inner_file = <<>>
    /\ queue_lock = "none"
    /\ file_lock = "none"
    /\ bg_pc = "exited"
    /\ fg_pc = "shut"
    /\ appended = 0
    /\ flushes = 0
    /\ reads = 0
    /\ inner_flushed = 0
    /\ spurious = 0
    /\ returned = "none"
    /\ queue_poison = FALSE
    /\ file_poison = FALSE
    /\ failures = 0
    /\ failed = "none"

DbIdle ==
    /\ data = <<>>
    /\ table = <<>>
    /\ log = <<>>
    /\ data_disk = {<<>>}
    /\ table_disk = {<<>>}
    /\ log_disk = {<<>>}
    /\ logged = {}
    /\ db_pc = "closed"
    /\ entry = 0
    /\ next_id = 0
    /\ rec_i = 0
    /\ crashes = 0
    /\ crash_pc = "none"
    /\ committed = <<<<>>, <<>>>>
    /\ target = <<<<>>, <<>>>>

ApiIdle ==
    /\ debug_assertions = FALSE
    /\ bucket_fill_target = 1
    /\ envelopes = <<>>
    /\ data_pos = 0
    /\ links = <<>>
    /\ link_pos = 0
    /\ buckets = <<>>
    /\ log_mod = 0
    /\ step = 0
    /\ nkeys = 0
    /\ stored = <<>>
    /\ ret = [op |-> "none"]

AppenderIdle ==
    /\ ap_file = <<>>
    /\ ap_pos = 0
    /\ ap_page = <<>>
    /\ ap_lep = invalid
    /\ ap_calls = 0
    /\ ap_ret = [op |-> "none"]
    /\ ap_appends = <<>>
    /\ ap_dirty = {}

SingleIdle ==
    /\ sf_append = FALSE
    /\ sf_file = <<>>
    /\ sf_cursor = 0
    /\ sf_len = 0
    /\ sf_calls = 0
    /\ sf_ret = [op |-> "none"]

DataIdle ==
    /\ df_file = <<>>
    /\ df_append_pos = 0
    /\ df_page = [offset |-> 0, segs |-> <<>>]
    /\ df_entries = <<>>
    /\ df_pc = "closed"
    /\ df_iter = <<>>

\* AsyncFile alone
InitAsync == AsyncInit /\ DbIdle /\ ApiIdle /\ AppenderIdle /\ SingleIdle /\ DataIdle

SpecAsync == InitAsync /\ [][AsyncNext]_vars

\* the AsyncFile, its worker and its owner over a failing inner file
SpecAsyncFail == InitAsync /\ [][AsyncFailNext]_vars

\* AsyncFile with a fair scheduler: a thread that can run its next step
\* eventually runs it. Starting a new foreground call is up to the caller.
SpecAsyncFair ==
    InitAsync /\ [][AsyncNext]_vars /\ WF_vars(BgStep) /\ WF_vars(FgStep)

\* PageDB with crashes
InitDb == DbInit /\ AsyncIdle /\ ApiIdle /\ AppenderIdle /\ SingleIdle /\ DataIdle

SpecDb == InitDb /\ [][DbNext]_vars

\* the Hammersbald API, called by its one owning thread
InitApi == ApiInit /\ AsyncIdle /\ DbIdle /\ AppenderIdle /\ SingleIdle /\ DataIdle

SpecApi == InitApi /\ [][ApiNext]_vars

\* Hammersbald filled by a sequence of puts
SpecTable == InitApi /\ [][TablePut]_vars

\* Hammersbald called with keys of any length
SpecApiLong == InitApi /\ [][ApiLongNext]_vars

\* PagedFileAppender alone, over a synchronous inner file
InitAppender == AppenderInit /\ AsyncIdle /\ DbIdle /\ ApiIdle /\ SingleIdle /\ DataIdle

SpecAppender == InitAppender /\ [][AppenderNext]_vars

\* SingleFile alone
InitSingle == SingleInit /\ AsyncIdle /\ DbIdle /\ ApiIdle /\ AppenderIdle /\ DataIdle

SpecSingle == InitSingle /\ [][SingleNext]_vars

\* ------------------------------------------------------------------------
\* Properties
\* ------------------------------------------------------------------------
\* the pages append_page has accepted, in the order it accepted them
\* ---------------- the Hammersbald API -------------------------------------
\* the puts of a key that returned Ok, as indexes of `stored`
PutsOf(key) == {i \in 1..Len(stored) : stored[i].key = key}

LastPutOf(key) == CHOOSE i \in PutsOf(key) : \A j \in PutsOf(key) : j <= i

\* no two put calls so far had the same key
DistinctPutKeys ==
    \A i, j \in 1..Len(envelopes) :
        (i # j /\ envelopes[i].kind = "Indexed" /\ envelopes[j].kind = "Indexed")
            => envelopes[i].key # envelopes[j].key

\* a batch call came between the first record and a later one
BatchBetween ==
    /\ envelopes # <<>>
    /\ envelopes[1].pos < PAGE_SIZE
    /\ envelopes[Len(envelopes)].pos >= PAGE_SIZE

\* C1: while all put calls had pairwise distinct keys, get(k) of a key whose
\* put returned the PRef p returns Some((p, d, r)) with the data d and the
\* references r given to that put, whatever batch calls came in between.
C1_GetReturnsPut ==
    (ret.op = "get" /\ DistinctPutKeys) =>
        \A i \in PutsOf(ret.key) :
            ret.value = <<stored[i].pref, stored[i].data, stored[i].referred>>

\* C1 witness: three distinct keys were put, with a batch call in between and
\* a split of the table, and get returned the first of them.
C1_Witness ==
    /\ ret.op = "get"
    /\ DistinctPutKeys
    /\ \A key \in Keys : PutsOf(key) # {}
    /\ BatchBetween
    /\ Len(buckets) > 2
    /\ PutsOf(ret.key) = {1}
    /\ ret.value = <<stored[1].pref, stored[1].data, stored[1].referred>>

\* C2: last writer wins: get(k) of a key that was put several times returns
\* the data and the PRef of the most recent put(k, ...).
C2_LastWriterWins ==
    (ret.op = "get" /\ PutsOf(ret.key) # {}) =>
        LET last == stored[LastPutOf(ret.key)]
        IN  ret.value = <<last.pref, last.data, last.referred>>

\* C2 witness: a key was put twice with different data, a batch call in
\* between, and get returned the second data and the second PRef.
C2_Witness ==
    /\ ret.op = "get"
    /\ Cardinality(PutsOf(ret.key)) >= 2
    /\ BatchBetween
    /\ \E i \in PutsOf(ret.key) :
          /\ stored[i].data # ret.value[2]
          /\ stored[i].pref < ret.value[1]
    /\ ret.value[1] = stored[LastPutOf(ret.key)].pref

Accepted == [i \in 1..appended |-> i]

IsPrefix(s, t) == Len(s) <= Len(t) /\ SubSeq(t, 1, Len(s)) = s

\* C4: batch atomicity. After a crash during the stores or between two steps
\* of batch, once recover has run, the data file and the table file together
\* are what they were at the end of one batch: the last batch that returned,
\* or the batch the crash interrupted, whole.
C4_BatchAtomicity ==
    db_pc = "recovered" => <<data, table>> \in {committed, target}

\* C5 as claimed: a crash at any point before batch has returned, followed by
\* recovery, yields exactly the state of the last batch that returned.
C5_CrashBeforeReturn ==
    (db_pc = "recovered" /\ crash_pc # "none") => <<data, table>> = committed

\* an entry can be retrieved when the data file holds it and a bucket of the
\* table names it
Retrievable(id, d, t) ==
    /\ \E i \in 1..Len(d) : d[i] = id
    /\ \E n \in 1..Len(t) : id \in t[n]

C7_OrderPreserved ==
    /\ \A i, j \in 1..Len(inner_file) : i < j => inner_file[i] < inner_file[j]
    /\ \A i \in 1..Len(inner_file) : \A p \in 1..inner_file[i] :
         \E k \in 1..i : inner_file[k] = p

\* C7 witness: two pages are in the inner file while a third waits in the queue
C7_Witness ==
    /\ Len(inner_file) >= 2
    /\ queue # <<>>

\* C8: when flush has returned, the queue is empty, every page enqueued before
\* the call is in the inner file, and the inner file was flushed after the
\* last of them.
C8_FlushComplete ==
    (returned = "flush" /\ fg_pc = "idle") =>
        /\ queue = <<>>
        /\ inner_file = Accepted
        /\ inner_flushed = Len(inner_file)

\* C8 witness: a flush has returned after two pages were enqueued
C8_Witness ==
    /\ returned = "flush"
    /\ fg_pc = "idle"
    /\ appended >= 2

\* C9: no page is lost or duplicated: the inner file followed by the queue is
\* always the sequence of accepted pages, and with a fair scheduler every
\* accepted page reaches the inner file.
C9_NoLossNoDup ==
    /\ [](inner_file \o queue = Accepted)
    /\ \A p \in 1..(MaxPages + 1) :
         (appended >= p) ~> (\E i \in 1..Len(inner_file) : inner_file[i] = p)

\* C9 witness: every accepted page is in the inner file, once each
C9_Witness ==
    /\ appended >= 2
    /\ inner_file = Accepted
    /\ returned = "append_page"

\* C11: once the worker has failed to append a page to the inner file, every
\* foreground call started afterwards fails: a step of the foreground that
\* starts a call when the worker has failed ends the call at once with a
\* panic, changes neither the queue nor the inner file and reports nothing
\* as returned.
C11_WorkerFailureReported ==
    [][(bg_pc \in {"unwinding", "panicked"} /\ fg_pc = "idle" /\ bg_pc' = bg_pc)
         => /\ fg_pc' = "idle"
            /\ failures' = failures + 1
            /\ failed' \in QueueCalls \cup FileCalls
            /\ UNCHANGED <<queue, inner_file, appended, inner_flushed, returned>>]_vars

\* calls of both kinds have failed after the worker's panic
C11_Witness ==
    /\ bg_pc = "panicked"
    /\ failures = MaxFailures
    /\ failed = "append_page"
    /\ fg_pc = "idle"

\* C10 as claimed: after shutdown has returned the queue is empty, every
\* enqueued page is in the inner file, and the worker leaves its loop and ends
\* without another foreground call.
C10_ShutdownStopsWorker ==
    /\ [](returned = "shutdown" => (queue = <<>> /\ inner_file = Accepted))
    /\ (returned = "shutdown") ~> (bg_pc = "exited")

\* the worker is inside `while let Some(page) = queue.pop_front()` with a page
\* still to write to the inner file
WorkerWriting == bg_pc = "drain" /\ queue # <<>>

\* C12 as claimed: in every reachable state in which the worker is writing
\* queued pages to the inner file, the queue mutex is free for a foreground
\* append_page, which can take it and return without waiting for the writes.
C12_AppendNeverWaits ==
    WorkerWriting => (queue_lock = "none" /\ ~Poisoned(queue_poison))

\* ---------------- PagedFileAppender ---------------------------------------

\* the runs are the n bytes of slice id from its byte k on, in order
RECURSIVE IsSliceFrom(_, _, _, _)
IsSliceFrom(runs, id, k, n) ==
    IF runs = <<>> THEN k = n
    ELSE /\ Head(runs).id = id
         /\ Head(runs).from = k
         /\ IsSliceFrom(Tail(runs), id, k + Head(runs).len, n)

\* C13 as claimed: when append has returned, the value it returned is the
\* appender's position immediately before the call, and reading as many
\* bytes as the slice has from the returned position yields the slice.
C13_AppendReturnsStart ==
    ap_ret.op = "append"
        => /\ ap_ret.value = ap_ret.before
           /\ IsSliceFrom(ApRead(ap_ret.value, ap_ret.n).bytes, ap_ret.id, 0, ap_ret.n)

\* C14: over append (of at least one byte), advance and flush calls the
\* positions returned by successive append calls are strictly increasing,
\* and no call moves the appender's position back.
C14_AppendMonotonic ==
    [][/\ ap_pos' >= ap_pos
       /\ \A i \in DOMAIN ap_appends' : \A j \in DOMAIN ap_appends' :
             i < j => ap_appends'[i].value < ap_appends'[j].value]_vars

\* three appends with a flush between them have returned
C14_Witness ==
    /\ Len(ap_appends) = 3
    /\ ap_ret.op = "append"
    /\ \E i \in DOMAIN ap_appends : ap_appends[i].n = 1
    /\ \E i \in DOMAIN ap_appends : ap_appends[i].n > PAGE_PAYLOAD_SIZE
    /\ in_page_pos(ap_appends[2].before) = 0
    /\ ap_appends[2].before > ap_appends[1].value

\* the length of the inner file in bytes
InnerLen(f) == Len(f) * PAGE_SIZE

\* C16 as claimed: read_page(p) is None for every page position p at or
\* beyond the inner file's length into which no bytes were appended since
\* the last flush.
C16_ReadPagePastEnd ==
    \A k \in 0..1 :
        LET p == InnerLen(ap_file) + k * PAGE_SIZE
        IN  p \notin ap_dirty => ApReadPage(p) = <<>>

\* ---------------- SingleFile ----------------------------------------------

\* C15 as claimed: when append_page(p) has returned, with L the length before
\* the call, p is the page at byte offset L of the file, the length is
\* L + PAGE_SIZE, every page below L is what it was before the call, and
\* read_page(L) returns p.
C15_AppendAtEnd ==
    sf_ret.op = "append_page"
        => /\ PageAt(sf_file, sf_ret.len) = sf_ret.page
           /\ sf_len = sf_ret.len + PAGE_SIZE
           /\ \A pos \in PagePositions :
                 pos < sf_ret.len => PageAt(sf_file, pos) = PageAt(sf_ret.file, pos)
           /\ SfReadResult(sf_ret.len) = <<sf_ret.page>>

\* ---------------- the Hammersbald API: rejected calls ----------------------

\* the call that has just returned is a put with a key of more than 255 bytes
LongPutReturned == ret.op = "put" /\ "key" \in DOMAIN ret /\ Len(ret.key) > 255

\* C17 as claimed: a put with a key longer than 255 bytes fails with the
\* OutOfBounds error kind and appends nothing to the data file.
C17_TooLongIsOutOfBounds ==
    [][LongPutReturned' =>
          /\ ret'.result = "OutOfBounds"
          /\ UNCHANGED <<envelopes, data_pos>>]_vars

\* no PRef stored in a record of the data file is at or beyond the record
NoForwardReference ==
    \A i \in DOMAIN envelopes :
        ~ForwardReference(envelopes[i].referred, envelopes[i].pos)

\* the call that has just returned is a put or put_referred that failed
Rejected == ret.op \in {"put", "put_referred"} /\ ret.result # "Ok"

\* C18 as claimed: after any sequence of put and put_referred calls every
\* record in the data file holds only PRefs strictly smaller than its own
\* position, and a rejected put or put_referred leaves the append position
\* of the data file where it was.
C18_NoForwardReferences ==
    [][/\ NoForwardReference'
       /\ Rejected' => UNCHANGED data_pos]_vars

\* ---------------- the table of buckets --------------------------------------

\* how often an entry occurs among the entries of bucket b, in-slot or in a
\* link record reachable from the bucket's link
Occurrences(e, b) ==
    LET Same(x) == x = e IN Len(SelectSeq(BucketEntries(Mem, b), Same))

\* the (hash, pos) pair put has inserted for a stored record
EntryOf(s) == <<hash(s.key), s.pref>>

\* the records stored by put, which indexes them (put_referred does not)
IndexedPuts == LET HasKey(s) == s.key # <<>> IN SelectSeq(stored, HasKey)

\* C19: after any sequence of puts, with splits and overflows, every
\* (hash, pos) pair inserted is found once in the bucket the current
\* (log_mod, step) selects for its hash, in-slot or in a link record of its
\* chain, and in no other bucket; the buckets hold nothing else; a key put
\* before a split is found by get after it.
C19_BucketChainClosure ==
    /\ \A i \in 1..Len(IndexedPuts) :
           LET e == EntryOf(IndexedPuts[i])
               b == BucketNumber(e[1])
           IN  /\ b < Len(buckets)
               /\ \A c \in 0..(Len(buckets) - 1) :
                     Occurrences(e, c) = IF c = b THEN 1 ELSE 0
               /\ MemGet(IndexedPuts[i].key) # <<>>
    /\ \A c \in 0..(Len(buckets) - 1) :
           \A j \in 1..Len(BucketEntries(Mem, c)) :
               \E i \in 1..Len(IndexedPuts) :
                   BucketEntries(Mem, c)[j] = EntryOf(IndexedPuts[i])

\* five puts and three splits, over the end of a round of splits: a split
\* has moved an entry to a new bucket and has left a bucket with in-slot
\* entries and a link record
C19_Witness ==
    /\ Len(IndexedPuts) = 5
    /\ Len(buckets) = 5
    /\ log_mod = 2
    /\ step = 1
    /\ \E i \in 1..Len(IndexedPuts) : BucketNumber(hash(IndexedPuts[i].key)) >= 2
    /\ \E c \in 0..(Len(buckets) - 1) :
           /\ buckets[c + 1].link # invalid
           /\ buckets[c + 1].slots # <<>>

\* ---------------- PageDB: recover --------------------------------------------

\* the step with which a recover that found a header in the log returns
RecoverReturns == db_pc = "r_log" /\ db_pc' = "recovered"

\* C20: when the log holds a header page and recover returns, the data file
\* has the data length of the header, the table file has its table length,
\* every pre-image page of the log with an offset below that table length is
\* the table page at that offset, and the log is empty.
C20_RecoverUndoes ==
    [][RecoverReturns =>
          /\ Len(data') = log[1].data_len
          /\ Len(table') = log[1].table_len
          /\ \A i \in 2..Len(log) :
                log[i].offset < log[1].table_len
                    => table'[log[i].offset + 1] = log[i].content
          /\ log' = <<>>]_vars

\* recover is at its last statement after a crash: the log holds a header of
\* a batch with entries and a pre-image page, an entry appended after that
\* batch has been cut off the data file and the pre-image has been written
\* back
C20_Witness ==
    /\ db_pc = "r_log"
    /\ crash_pc # "none"
    /\ Len(log) >= 2
    /\ log[1].data_len >= 1
    /\ log[1].data_len < next_id
    /\ \E i \in 2..Len(log) : log[i].offset < log[1].table_len

\* ---------------------------------------------------------------------------
\* C21: when batch() returns successfully the log file has been truncated to
\* length zero, so that a recovery run directly after a completed batch finds
\* no header and changes nothing: the step with which batch returns leaves an
\* empty log, and a recovery that starts from the files a completed batch left
\* (a crash between two calls with nothing appended since) returns at its
\* first step.
BatchReturns == db_pc = "b_sync" /\ db_pc' = "running"
RecoverAfterBatch ==
    /\ db_pc = "recover"
    /\ crash_pc = "running"
    /\ <<data, table>> = committed
C21_BatchTruncatesLog ==
    [][/\ BatchReturns => log' = <<>>
       /\ RecoverAfterBatch => (db_pc' = "recovered" /\ log' = log)]_vars

\* ---------------------------------------------------------------------------
\* C22: lock discipline of AsyncFile: in every reachable state the queue lock
\* and the inner-file lock are held together by the same thread only when that
\* thread is the background worker moving pages from the queue to the file;
\* no foreground operation ever holds both.
HoldsBoth(thread) == queue_lock = thread /\ file_lock = thread
C22_LockDiscipline ==
    /\ ~HoldsBoth("fg")
    /\ HoldsBoth("bg") => bg_pc \in {"drain", "notify"}

\* ---------------------------------------------------------------------------
\* C23: page hand-off in PagedFileAppender: whenever append fills the payload
\* part of the current page, that page is handed to the inner file with its
\* trailing field equal to lep at that moment, and pos then skips the trailing
\* field; after every append the in-page offset of pos is below
\* PAGE_PAYLOAD_SIZE. Stated of every append step: one page is handed over
\* for each page the slice fills, each with the current lep in its trailing
\* field, the pages the inner file held stay, and pos ends where a copy that
\* skips the trailing fields ends.
AppendStep == ap_calls' = ap_calls + 1 /\ ap_ret'.op = "append"
PagesFilled == (this_page(ap_pos') - this_page(ap_pos)) \div PAGE_SIZE
C23_PageHandOff ==
    [][AppendStep =>
          /\ Len(ap_file') = Len(ap_file) + PagesFilled
          /\ SubSeq(ap_file', 1, Len(ap_file)) = ap_file
          /\ \A i \in (Len(ap_file) + 1)..Len(ap_file') : ap_file'[i].pref = ap_lep
          /\ ap_pos' = append_end(ap_pos, ap_ret'.n)
          /\ in_page_pos(ap_pos') < PAGE_PAYLOAD_SIZE]_vars

\* an append filled a page after an advance had set lep, and the page in the
\* inner file carries that lep
C23_Witness ==
    /\ ap_ret.op = "append"
    /\ this_page(ap_ret.value) > this_page(ap_ret.before)
    /\ ap_lep # invalid
    /\ ap_lep > 0
    /\ ap_file[Len(ap_file)].pref = ap_lep

\* ---------------------------------------------------------------------------
\* C24: PagedFileAppender::flush ends the current page: after flush over a
\* synchronous inner file whose length equalled the appender's page-aligned
\* start position, pos is page-aligned and equals the inner file's length,
\* and no byte appended after the flush is stored at a position between the
\* pre-flush pos and that page boundary. Stated of every step: a flush leaves
\* pos at the page boundary that is the length of the inner file; no step
\* changes a page the inner file holds; and the bytes an append stores, in the
\* pages it hands over and in the page in progress, lie at or after the
\* position the appender had when it was called, which is never before the
\* end of the inner file.
FlushStep == ap_calls' = ap_calls + 1 /\ ap_ret'.op = "flush"
StoredFrom(page, at, id, pos) ==
    \A i \in DOMAIN page.segs : page.segs[i].id = id => at + page.segs[i].at >= pos
C24_FlushEndsPage ==
    [][/\ FlushStep =>
            /\ in_page_pos(ap_pos') = 0
            /\ ap_pos' = Len(ap_file') * PAGE_SIZE
            /\ ap_pos' = flush_end(ap_pos)
       /\ SubSeq(ap_file', 1, Len(ap_file)) = ap_file
       /\ ap_pos >= Len(ap_file) * PAGE_SIZE
       /\ AppendStep =>
            /\ \A i \in (Len(ap_file) + 1)..Len(ap_file') :
                  StoredFrom(ap_file'[i], (i - 1) * PAGE_SIZE, ap_ret'.id, ap_pos)
            /\ ap_page' # <<>> =>
                  StoredFrom(ap_page'[1], this_page(ap_pos'), ap_ret'.id, ap_pos)]_vars

\* an append has stored its bytes after a flush that ended a page with bytes
\* of an earlier append in it: the page in the file ends with unused bytes
C24_Witness ==
    /\ ap_ret.op = "append"
    /\ Len(ap_appends) >= 2
    /\ in_page_pos(ap_ret.before) = 0
    /\ in_page_pos(ap_appends[Len(ap_appends) - 1].value) > 0
    /\ ap_ret.before = flush_end(ap_appends[Len(ap_appends) - 1].value)
    /\ Len(ap_file) * PAGE_SIZE >= ap_ret.before

\* ---------------------------------------------------------------------------
\* C25: read-your-writes on the appender: over a synchronous inner file, after
\* any sequence of append and flush calls, PagedFileAppender::read at the
\* position where a slice was written returns exactly the bytes of that
\* slice, also when the slice lies wholly or partly in the page in progress
\* and when it straddles page boundaries, and the position it returns is the
\* appender's position right after that slice was appended.
ReadsBack(call) ==
    LET r == ApRead(call.before, call.n)
    IN  /\ IsSliceFrom(r.bytes, call.id, 0, call.n)
        /\ r.pos = call.value
C25_ReadYourWrites == \A i \in DOMAIN ap_appends : ReadsBack(ap_appends[i])

\* a slice that begins in a page of the inner file and ends in the page in
\* progress is read back, after a flush and a later append
C25_Witness ==
    /\ ap_page # <<>>
    /\ Len(ap_appends) >= 2
    /\ \E i \in DOMAIN ap_appends :
          /\ this_page(ap_appends[i].before) < this_page(ap_appends[i].value)
          /\ this_page(ap_appends[i].value) = this_page(ap_pos)
          /\ in_page_pos(ap_appends[i].value) > 0
          /\ ReadsBack(ap_appends[i])
    /\ \E i \in DOMAIN ap_appends :
          i > 1 /\ ap_appends[i].before > ap_appends[i - 1].value

\* ------------------------------------------------------------------------
\* PagedFileAppender::truncate (pagedfile.rs)
\* ------------------------------------------------------------------------
\* the page-aligned lengths a caller truncates to
TruncateLens == {0, PAGE_SIZE, 2 * PAGE_SIZE}

\* a read_pref that finds no reference in a page
read_no_pref(page) == invalid

\* Page::read_pref(PAGE_PAYLOAD_SIZE): the trailing field of a page
read_pref(page) == page.pref

\* a failing call that has stored its argument before it returns the error
SetBeforeErr(old, new) == new

\* a field of the appender when a call returns Err before it assigns to it
KeptOnErr(old, new) == old

\* truncate of the synchronous inner file to a page-aligned length that is
\* not beyond its end
InnerTruncate(f, new_len) == SubSeq(f, 1, new_len \div PAGE_SIZE)

\* truncate: if new_len >= PAGE_SIZE and self.file.read_page(new_len -
\* PAGE_SIZE) is None
NoLastPage(f, new_len) ==
    new_len >= PAGE_SIZE /\ InnerReadPage(f, new_len - PAGE_SIZE) = <<>>

\* PagedFileAppender::truncate(new_len): Err(Corrupted) before any
\* assignment when the last page is missing; else lep from the last page's
\* trailing field or invalid, pos = new_len, file.truncate(new_len).
\* self.page is not assigned.
ApTruncate ==
    /\ ap_calls < MaxAppenderCalls
    /\ \E new_len \in TruncateLens :
          IF NoLastPage(ap_file, new_len)
          THEN /\ ap_ret' = [op |-> "truncate", new_len |-> new_len,
                             result |-> "Corrupted"]
               /\ ap_pos' = KeptOnErr(ap_pos, new_len)
               /\ UNCHANGED <<ap_lep, ap_file, ap_dirty>>
          ELSE /\ ap_ret' = [op |-> "truncate", new_len |-> new_len, result |-> "Ok"]
               /\ ap_lep' = IF new_len >= PAGE_SIZE
                            THEN read_pref(InnerReadPage(ap_file, new_len - PAGE_SIZE)[1])
                            ELSE invalid
               /\ ap_pos' = new_len
               /\ ap_file' = InnerTruncate(ap_file, new_len)
               /\ ap_dirty' = {p \in ap_dirty : p < new_len}
    /\ ap_calls' = ap_calls + 1
    /\ UNCHANGED <<ap_page, ap_appends>>
    /\ UNCHANGED notAppenderVars

AppenderTruncNext ==
    \/ AppenderNext
    \/ ApTruncate

\* PagedFileAppender with truncate calls
SpecAppenderTrunc == InitAppender /\ [][AppenderTruncNext]_vars

\* ---------------------------------------------------------------------------
\* C26: PagedFileAppender::truncate(new_len) with page-aligned new_len
\* restores the appender state of that length: pos becomes new_len, lep
\* becomes the trailing field of the last retained page (the page at new_len -
\* PAGE_SIZE), or the invalid PRef when new_len is below PAGE_SIZE, and the
\* inner file is cut to new_len, so that the next page handed over continues
\* the back-pointer chain of the retained pages. Stated of every truncate
\* step that returns Ok, and of the append or flush step that follows it
\* directly: the pages it hands over carry the restored lep.
TruncateStep == ap_calls' = ap_calls + 1 /\ ap_ret'.op = "truncate"
RetainedLep(f, new_len) ==
    IF new_len >= PAGE_SIZE THEN f[new_len \div PAGE_SIZE].pref ELSE invalid
C26_TruncateRestores ==
    [][/\ (TruncateStep /\ ap_ret'.result = "Ok") =>
            /\ ap_pos' = ap_ret'.new_len
            /\ ap_lep' = RetainedLep(ap_file, ap_ret'.new_len)
            /\ Len(ap_file') * PAGE_SIZE = ap_ret'.new_len
            /\ ap_file' = SubSeq(ap_file, 1, Len(ap_file'))
       /\ (ap_ret.op = "truncate" /\ ap_ret.result = "Ok" /\ (AppendStep \/ FlushStep)) =>
            \A i \in (Len(ap_file) + 1)..Len(ap_file') :
                ap_file'[i].pref = RetainedLep(ap_file, ap_ret.new_len)]_vars

\* a truncate has cut off a page and restored a lep that an advance had set,
\* and differs from the lep the appender had before
C26_Witness ==
    /\ ap_ret.op = "truncate"
    /\ ap_ret.result = "Ok"
    /\ ap_ret.new_len = PAGE_SIZE
    /\ Len(ap_file) = 1
    /\ ap_lep # invalid
    /\ ap_lep = ap_file[1].pref
    /\ ap_page # <<>>

\* ---------------------------------------------------------------------------
\* C27: PagedFileAppender::truncate(new_len) with new_len >= PAGE_SIZE fails
\* with Corrupted when the inner file has no page at new_len - PAGE_SIZE, and
\* in that case pos, lep and the inner file's length are all left unchanged.
C27_TruncateCorrupted ==
    [][TruncateStep =>
          /\ ap_ret'.result = "Corrupted" <=>
                /\ ap_ret'.new_len >= PAGE_SIZE
                /\ ap_ret'.new_len - PAGE_SIZE >= Len(ap_file) * PAGE_SIZE
          /\ ap_ret'.result = "Corrupted" =>
                /\ ap_pos' = ap_pos
                /\ ap_lep' = ap_lep
                /\ Len(ap_file') = Len(ap_file)]_vars

\* a truncate to a length beyond the inner file has failed while the appender
\* held a page in progress and a lep set by advance
C27_Witness ==
    /\ ap_ret.op = "truncate"
    /\ ap_ret.result = "Corrupted"
    /\ ap_page # <<>>
    /\ in_page_pos(ap_pos) > 0
    /\ ap_lep # invalid

\* ------------------------------------------------------------------------
\* MemTable::get (memtable.rs): the bucket of a hash, in 32-bit arithmetic
\* ------------------------------------------------------------------------
\* the largest log_mod of the MemTable
MaxLogMod == 3

\* hash values (u32; the values of the model are below 2^31)
Hashes32 == {0, 1, 2, 3, 5, 8, 65537, 2147483647}

\* u32 >> s overflows when s is not below the width of the type: a panic
\* where overflow checks are compiled in (a debug build)
ShiftOverflow(s) == s >= 32

\* !0u32 >> s: the number of low bits that stay set; without overflow checks
\* the shift amount is taken modulo 32
MaskBits(s) == 32 - (s % 32)

\* hash & mask for a mask of `bits` low bits, for hash < 2^31
AndMask(h, bits) == IF bits > 30 THEN h ELSE h % (2 ^ bits)

\* MemTable::get, lines 75-78: the bucket number, or a panic
get_bucket_number(h) ==
    LET s1 == 32 - log_mod
    IN  IF ShiftOverflow(s1) /\ debug_assertions
        THEN [panic |-> TRUE, bucket |-> 0]
        ELSE LET bucket_number == AndMask(h, MaskBits(s1))
             IN  IF bucket_number < step
                 THEN [panic |-> FALSE,
                       bucket |-> AndMask(h, MaskBits(32 - log_mod - 1))]
                 ELSE [panic |-> FALSE, bucket |-> bucket_number]

\* MemTable::new(step, buckets, log_mod, sip0, sip1) for every (log_mod, step)
\* with 0 <= step < 2^log_mod, in a debug and in a release build
MemTableInit ==
    /\ debug_assertions \in BOOLEAN
    /\ log_mod \in 0..MaxLogMod
    /\ step \in 0..(2 ^ MaxLogMod - 1)
    /\ step < 2 ^ log_mod
    /\ bucket_fill_target = 1
    /\ envelopes = <<>>
    /\ data_pos = 0
    /\ links = <<>>
    /\ link_pos = 0
    /\ buckets = <<>>
    /\ nkeys = 0
    /\ stored = <<>>
    /\ ret = [op |-> "new"]

\* MemTable::get for a key with hash h, up to the choice of the bucket
GetBucket ==
    /\ \E h \in Hashes32 :
          ret' = [op |-> "get", hash |-> h, number |-> get_bucket_number(h)]
    /\ UNCHANGED <<debug_assertions, bucket_fill_target, envelopes, data_pos, links,
                   link_pos, buckets, log_mod, step, nkeys, stored>>
    /\ UNCHANGED notApiVars

InitMemTable == MemTableInit /\ AsyncIdle /\ DbIdle /\ AppenderIdle /\ SingleIdle /\ DataIdle

\* the bucket selection of MemTable::get alone
SpecMemTable == InitMemTable /\ [][GetBucket]_vars

\* ---------------------------------------------------------------------------
\* C28: bucket selection follows the linear-hash function for every state the
\* spec allows: for every hash h and every (log_mod, step) with
\* 0 <= step < 2^log_mod, including log_mod = 0, the bucket number
\* MemTable::get uses equals h mod 2^log_mod, replaced by h mod 2^(log_mod+1)
\* when the former is below step, and it is always less than 2^log_mod + step.
LinearHash(h) ==
    IF h % (2 ^ log_mod) < step THEN h % (2 ^ (log_mod + 1)) ELSE h % (2 ^ log_mod)
C28_BucketSelection ==
    ret.op = "get" =>
        /\ ~ret.number.panic
        /\ ret.number.bucket = LinearHash(ret.hash)
        /\ ret.number.bucket < 2 ^ log_mod + step

\* ---------------------------------------------------------------------------
\* C30: AsyncFile is deadlock-free: for every interleaving of one foreground
\* thread calling append_page, flush, read_page, len, truncate, sync and
\* shutdown with the background worker, and with no inner-file error, no
\* state is reachable in which the foreground thread and the worker both wait
\* forever; every foreground call eventually returns under fair scheduling.
\* Stated as: the foreground never waits for flushed while the worker waits
\* for work, a foreground thread inside a call never finds both threads
\* without a step, a foreground thread inside a call is eventually outside
\* of it, and the worker gives up each of the two locks again and again, so
\* that a call that begins by taking one of them gets it.
InCall == fg_pc \notin {"idle", "shut"}
C30_DeadlockFree ==
    /\ []~(fg_pc \in {"fl_wait", "sd_wait"} /\ bg_pc = "wait_work")
    /\ [](InCall => (ENABLED FgStep \/ ENABLED BgStep))
    /\ InCall ~> ~InCall
    /\ []<>(queue_lock # "bg")
    /\ []<>(file_lock # "bg")

\* a flush that had to wait for the worker has returned
C30_Witness ==
    /\ returned = "flush"
    /\ fg_pc = "idle"
    /\ Len(inner_file) >= 2
    /\ flushes >= 1
    /\ bg_pc = "wait_work"
    /\ spurious >= 1

\* ------------------------------------------------------------------------
\* DataFile (datafile.rs): append, append_slice, flush, data_iter
\* ------------------------------------------------------------------------
\* entries appended to one DataFile
MaxDataEntries == 3

\* page::PAYLOAD_MAX: the payload bytes of a page
PAYLOAD_MAX == PAGE_PAYLOAD_SIZE

\* the entries a caller appends: DataType 1 (TransactionOrAppData) or 2
\* (HeaderOrBlock); content of one byte, of a length that ends 3 bytes before
\* the payload of the first page ends, and of more than a page; every
\* content byte is 7
DataEntries == [data_type : {1, 2}, len : {1, PAYLOAD_MAX - 9, 5000}, fill : {7}]

\* Offset::next_page: the start of the page after the one of an offset
next_page(offset) == (offset \div PAGE_SIZE + 1) * PAGE_SIZE

\* the slices of append, as ids of the writes into a page: 1 is the magic
\* number, 10 k the data type of entry k, 10 k + 1 its length, 10 k + 2 its
\* content; 0 stands for bytes never written
MagicId == 1
TypeId(k) == 10 * k
LenId(k) == 10 * k + 1
ContentId(k) == 10 * k + 2

\* U24::serialize: byte i (from 0) of a length in 3 bytes, big-endian
U24Byte(n, i) == (n \div (256 ^ (2 - i))) % 256

\* U24::from_slice: the length in 3 bytes
U24FromSlice(b) == b[1] * 65536 + b[2] * 256 + b[3]

\* the value of byte `from` of the slice with an id, for the entries es
ByteVal(es, id, from) ==
    IF id = 0 THEN 0
    ELSE IF id = MagicId THEN (IF from = 0 THEN 188 ELSE 218)
    ELSE LET e == es[id \div 10]
         IN  CASE id % 10 = 0 -> e.data_type
               [] id % 10 = 1 -> U24Byte(e.len, from)
               [] OTHER -> e.fill

\* DataType::from(u8): 1, 2, 3 are data types, every other byte is Padding
IsDataType(b) == b \in {1, 2, 3}

\* Page::new(offset): a payload of zero bytes
DataPage(offset) == [offset |-> offset, segs |-> <<>>]

\* the loop of DataFile::append_slice for the slice id of n bytes; st holds
\* async_file, append_pos, page and whether a slice index was out of range
RECURSIVE AppendSliceLoop(_, _, _, _, _)
AppendSliceLoop(st, id, n, wrote, pos) ==
    IF wrote >= n THEN [st EXCEPT !.append_pos = st.append_pos + wrote]
    ELSE LET full == pos = PAYLOAD_MAX
             st1 == IF full
                    THEN [st EXCEPT !.file = Append(st.file, st.page),
                                    !.append_pos = next_page(st.append_pos),
                                    !.page = DataPage(next_page(st.append_pos))]
                    ELSE st
             pos1 == IF full THEN 0 ELSE pos
         IN  IF pos1 > PAYLOAD_MAX
             THEN [st1 EXCEPT !.panic = TRUE]
             ELSE LET have == Min(n - wrote, PAYLOAD_MAX - pos1)
                      page1 == PageWrite(st1.page, pos1,
                                         [id |-> id, from |-> wrote, len |-> have])
                  IN  AppendSliceLoop([st1 EXCEPT !.page = page1], id, n,
                                      wrote + have, pos1 + have)

\* DataFile::append_slice(slice): the copy starts at append_pos.in_page_pos()
append_slice(st, id, n) ==
    IF st.panic THEN st
    ELSE AppendSliceLoop(st, id, n, 0, in_page_pos(st.append_pos))

\* DataFile::new over an empty file
DataInit ==
    /\ df_file = <<>>
    /\ df_append_pos = 0
    /\ df_page = DataPage(0)
    /\ df_entries = <<>>
    /\ df_pc = "open"
    /\ df_iter = <<>>

\* DataFile::append(entry): the magic number before the first entry of an
\* empty file, then the data type, the length and the content
DfAppend ==
    /\ df_pc = "open"
    /\ Len(df_entries) < MaxDataEntries
    /\ \E e \in DataEntries :
          LET k == Len(df_entries) + 1
              st0 == [file |-> df_file, append_pos |-> df_append_pos,
                      page |-> df_page, panic |-> FALSE]
              st1 == IF df_page.offset = 0 /\ df_append_pos = 0
                     THEN append_slice(st0, MagicId, 2)
                     ELSE st0
              st2 == append_slice(st1, TypeId(k), 1)
              st3 == append_slice(st2, LenId(k), 3)
              st4 == append_slice(st3, ContentId(k), e.len)
          IN  /\ df_file' = st4.file
              /\ df_append_pos' = st4.append_pos
              /\ df_page' = st4.page
              /\ df_entries' = Append(df_entries, e)
              /\ df_pc' = IF st4.panic THEN "panicked" ELSE "open"
    /\ UNCHANGED df_iter
    /\ UNCHANGED notDataVars

\* DBFile::flush of DataFile: the page in progress is handed over when
\* append_pos is inside a page; the pages are then in the file
DfFlush ==
    /\ df_pc = "open"
    /\ df_file' = IF in_page_pos(df_append_pos) > 0
                  THEN Append(df_file, df_page)
                  ELSE df_file
    /\ df_pc' = "flushed"
    /\ UNCHANGED <<df_append_pos, df_page, df_entries, df_iter>>
    /\ UNCHANGED notDataVars

\* the bytes of runs, one value each
RECURSIVE RunBytes(_, _)
RunBytes(es, runs) ==
    IF runs = <<>> THEN <<>>
    ELSE [j \in 1..Head(runs).len |-> ByteVal(es, Head(runs).id, Head(runs).from + j - 1)]
         \o RunBytes(es, Tail(runs))

\* the first byte of the runs, which begin at offset at, that is a data type.
\* A run of more than 3 bytes is content or was never written: its bytes are
\* equal.
RECURSIVE FirstDataType(_, _, _)
FirstDataType(es, runs, at) ==
    IF runs = <<>> THEN [found |-> FALSE, at |-> at, data_type |-> 0]
    ELSE LET r == Head(runs)
             hits == {j \in (IF r.len <= 3 THEN 0..(r.len - 1) ELSE {0}) :
                         IsDataType(ByteVal(es, r.id, r.from + j))}
         IN  IF hits = {}
             THEN FirstDataType(es, Tail(runs), at + r.len)
             ELSE LET j == CHOOSE h \in hits : \A g \in hits : h <= g
                  IN  [found |-> TRUE, at |-> at + j,
                       data_type |-> ByteVal(es, r.id, r.from + j)]

\* DataIterator::skip_padding: current is page idx of the file (None past its
\* end), pos the offset in its payload
RECURSIVE skip_padding(_, _, _, _)
skip_padding(es, f, idx, pos) ==
    IF idx > Len(f) THEN [found |-> FALSE, idx |-> idx, pos |-> pos, data_type |-> 0]
    ELSE LET hit == FirstDataType(es, PageRead(f[idx].segs, pos, PAYLOAD_MAX), pos)
         IN  IF hit.found
             THEN [found |-> TRUE, idx |-> idx, pos |-> hit.at + 1,
                   data_type |-> hit.data_type]
             ELSE skip_padding(es, f, idx + 1, 0)

\* DataIterator::read_slice for a slice of n bytes: false when the pages end
RECURSIVE read_slice(_, _, _, _, _, _)
read_slice(f, idx, pos, n, read, bytes) ==
    IF idx > Len(f) THEN [ok |-> FALSE, idx |-> idx, pos |-> pos, bytes |-> bytes]
    ELSE LET have == Min(PAYLOAD_MAX - pos, n - read)
             bytes1 == bytes \o PageRead(f[idx].segs, pos, pos + have)
         IN  IF read + have = n
             THEN [ok |-> TRUE, idx |-> idx, pos |-> pos + have, bytes |-> bytes1]
             ELSE read_slice(f, idx + 1, 0, n, read + have, bytes1)

\* Iterator::next of DataIterator, called until it returns None: the entries
\* it yields, each with its data type and its content as runs
RECURSIVE DataIterNext(_, _, _, _, _)
DataIterNext(es, f, idx, pos, yielded) ==
    LET t == skip_padding(es, f, idx, pos)
    IN  IF ~t.found THEN yielded
        ELSE LET size == read_slice(f, t.idx, t.pos, 3, 0, <<>>)
             IN  IF ~size.ok THEN yielded
                 ELSE LET len == U24FromSlice(RunBytes(es, size.bytes))
                          buf == read_slice(f, size.idx, size.pos, len, 0, <<>>)
                      IN  IF ~buf.ok THEN yielded
                          ELSE DataIterNext(es, f, buf.idx, buf.pos,
                                  Append(yielded, [data_type |-> t.data_type,
                                                   len |-> len,
                                                   content |-> buf.bytes]))

\* data_iter() consumed to its end: the first page comes from the page
\* iterator, which ends where read_page fails, and pos = 2 skips the magic
\* number
DfIterate ==
    /\ df_pc = "flushed"
    /\ df_iter' = DataIterNext(df_entries, df_file, 1, 2, <<>>)
    /\ df_pc' = "iterated"
    /\ UNCHANGED <<df_file, df_append_pos, df_page, df_entries>>
    /\ UNCHANGED notDataVars

DataNext ==
    \/ DfAppend
    \/ DfFlush
    \/ DfIterate

InitData == DataInit /\ AsyncIdle /\ DbIdle /\ ApiIdle /\ AppenderIdle /\ SingleIdle

\* DataFile: entries appended to an empty file, a flush, an iteration
SpecData == InitData /\ [][DataNext]_vars

\* ---------------------------------------------------------------------------
\* C29: DataFile round trip: for any sequence of entries appended to an empty
\* DataFile and then flushed, including entries whose bytes cross one or more
\* page boundaries, data_iter yields exactly those entries, with equal type
\* and content, in append order and then ends; on an empty file page_iter and
\* data_iter yield nothing.
YieldsEntry(y, k) ==
    /\ y.data_type = df_entries[k].data_type
    /\ y.len = df_entries[k].len
    /\ IsSliceFrom(y.content, ContentId(k), 0, df_entries[k].len)
C29_DataRoundTrip ==
    /\ df_pc # "panicked"
    /\ df_pc = "iterated" =>
          /\ Len(df_iter) = Len(df_entries)
          /\ \A k \in DOMAIN df_iter : YieldsEntry(df_iter[k], k)
          /\ df_entries = <<>> => df_file = <<>>

\* the failing AsyncFile with a fair scheduler: a thread that can run its next
\* step eventually runs it, an unwinding worker unwinds and a woken call
\* finds the poisoned mutex. Neither a failure of the inner file nor a
\* spurious wakeup is ever forced.
SpecAsyncFailFair ==
    /\ InitAsync
    /\ [][AsyncFailNext]_vars
    /\ WF_vars(BgStep \/ BgUnwind)
    /\ WF_vars(FgStep \/ FgPoisonedWait)

\* ---------------------------------------------------------------------------
\* C31: AsyncFile::flush and AsyncFile::shutdown always terminate: if the
\* worker fails on an inner-file append while a foreground flush or shutdown
\* is waiting for the queue to drain, the waiting call is woken and returns
\* (with a failure) instead of waiting forever.
WaitsForDrain == fg_pc \in {"fl_wait", "sd_wait"}
WorkerFailed == bg_pc \in {"unwinding", "panicked"}
C31_WaitingCallTerminates ==
    (WaitsForDrain /\ WorkerFailed) ~> (fg_pc = "idle" /\ failed \in {"flush", "shutdown"})

\* ---------------------------------------------------------------------------
\* C32: recovery makes its undo durable before discarding the log: in
\* recover, the truncations of the data and table files and the pre-image
\* pages written back to the table are flushed and synced before the log is
\* truncated, so a crash right after the log truncation cannot leave a table
\* that is only partly restored with no log to restore it from. Stated of
\* the step that truncates and syncs the log: the data file and the table
\* file a crash would leave are then the files recover produced.
C32_UndoDurableBeforeLogCut ==
    [][RecoverReturns => (data_disk' = {data'} /\ table_disk' = {table'})]_vars

\* ---------------------------------------------------------------------------
\* recover restarted after a crash inside recover (pagedb.rs)
\* ---------------------------------------------------------------------------
\* the places inside recover where the process can stop: before the table is
\* truncated, among the pages written back, before the log is truncated, and
\* between log.truncate and log.sync
RecoverPoints == {"r_table", "r_pages", "r_log", "r_sync"}

\* recover: log.truncate(Offset::new(0)?)?, not yet synced
DbRecoverLogTruncate ==
    /\ db_pc = "r_log"
    /\ log' = Truncated(log, 0)
    /\ log_disk' = log_disk \cup {log'}
    /\ rec_i' = 0
    /\ db_pc' = "r_sync"
    /\ UNCHANGED <<data, table, data_disk, table_disk, logged, entry, next_id,
                   crashes, crash_pc, committed, target>>
    /\ UNCHANGED notDbVars

\* recover: log.sync()?; Ok(())
DbRecoverLogSync ==
    /\ db_pc = "r_sync"
    /\ log_disk' = {log}
    /\ db_pc' = "recovered"
    /\ UNCHANGED <<data, table, log, data_disk, table_disk, logged, entry, next_id,
                   rec_i, crashes, crash_pc, committed, target>>
    /\ UNCHANGED notDbVars

\* the process stops inside recover: each file keeps one of the contents its
\* unsynced writes allow, and the next open starts recover again
DbCrashInRecover ==
    /\ db_pc \in RecoverPoints
    /\ crashes < MaxCrashes
    /\ crashes' = crashes + 1
    /\ crash_pc' = db_pc
    /\ \E d \in data_disk, t \in table_disk, l \in log_disk :
         /\ data' = d
         /\ table' = t
         /\ log' = l
         /\ data_disk' = {d}
         /\ table_disk' = {t}
         /\ log_disk' = {l}
    /\ logged' = {}
    /\ entry' = 0
    /\ rec_i' = 0
    /\ db_pc' = "recover"
    /\ UNCHANGED <<next_id, committed, target>>
    /\ UNCHANGED notDbVars

DbRestartNext ==
    \/ DbNext
    \/ DbRecoverLogTruncate
    \/ DbRecoverLogSync
    \/ DbCrashInRecover

SpecDbRestart == InitDb /\ [][DbRestartNext]_vars

\* recover's loop over the pages of the log from the i-th on: each page with
\* an offset below the table length of the header is written to the table
RECURSIVE RestorePages(_, _, _)
RestorePages(t, l, i) ==
    IF i > Len(l) THEN t
    ELSE RestorePages(IF Restores(l[i], l[1].table_len)
                        THEN UpdatePage(t, l[i].offset, l[i].content)
                        ELSE t,
                      l, i + 1)

\* the data, table and log files a whole recover leaves of the files d, t, l
recover_files(d, t, l) ==
    IF Len(l) > 0
      THEN <<Truncated(d, l[1].data_len),
             RestorePages(Truncated(t, l[1].table_len), l, 2),
             <<>>>>
      ELSE <<d, t, l>>

\* the files the recover in progress leaves when it runs to its end
RecoverCompleted ==
    CASE db_pc = "r_table" ->
           <<data, RestorePages(Truncated(table, log[1].table_len), log, 2), <<>>>>
      [] db_pc = "r_pages" -> <<data, RestorePages(table, log, rec_i), <<>>>>
      [] OTHER -> <<data, table, <<>>>>

\* the process stops inside recover
CrashInRecover == db_pc \in RecoverPoints /\ db_pc' = "recover"

\* C33: recovery is restartable: when the process stops at any step inside
\* recover, the recover of the next open leaves the data, table and log files
\* the stopped recover would have left had it run to its end.
C33_RecoverRestartable ==
    [][CrashInRecover => recover_files(data', table', log') = RecoverCompleted]_vars

\* ---------------------------------------------------------------------------
\* PagedFileAppender::read: how much of buf a call fills (pagedfile.rs)
\* ---------------------------------------------------------------------------
\* the loop of PagedFileAppender::read(pos, buf) for a buf of n bytes: the
\* number of bytes of buf filled when the loop ends, by read reaching
\* buf.len() or by the break on a page read_page does not find
RECURSIVE ReadFilled(_, _, _)
ReadFilled(pos, n, read) ==
    IF read >= n THEN read
    ELSE IF ApReadPage(this_page(pos)) = <<>> THEN read
    ELSE LET have == Min(PAGE_PAYLOAD_SIZE - in_page_pos(pos), n - read)
             pos1 == pos + have
             pos2 == IF in_page_pos(pos1) = PAGE_PAYLOAD_SIZE
                     THEN pos1 + (PAGE_SIZE - PAGE_PAYLOAD_SIZE)
                     ELSE pos1
         IN  ReadFilled(pos2, n, read + have)

\* the positions a caller reads from: where its slices were appended, and
\* the position of the appender
ReadStarts == {ap_appends[i].before : i \in DOMAIN ap_appends} \cup {ap_pos}

\* C34: PagedFileAppender::read never returns a short read as success: read
\* has no error of its own and returns Ok(pos) whenever read_page returns Ok,
\* so every call read(pos, buf) of a buf of n bytes has filled all n bytes
\* when it returns, also when a page it needs is missing from the inner file.
C34_NoShortRead ==
    \A pos \in ReadStarts : \A n \in Slices : ReadFilled(pos, n, 0) = n

====
